---- MODULE Spec2Model ----
(***************************************************************************)
(* BigMart_Project: the preprocessing strategies and the DataTransformer   *)
(* context (analysis/analyze_src/preprocess.py), the feature-engineering   *)
(* strategies and the FeatureEngineer context (src/                        *)
(* feature_engineering.py), the inspection strategies and DataInspector    *)
(* (analysis/analyze_src/pre_inspection_analysis.py), the analysis         *)
(* strategies and the multivariate analyzer context (analysis/analyze_src/ *)
(* multiveriate_analysis.py), the Kaggle downloader and the CSV ingestor   *)
(* (src/datadownloader.py).                                                *)
(*                                                                         *)
(* A table (pandas DataFrame) is a record                                  *)
(*     [index |-> row labels, columns |-> column names in order,           *)
(*      data |-> [column name |-> the column's values, by position]].      *)
(* A cell is NaN (the empty tuple) or <<v>> for a value v.  The numbers of  *)
(* MinMaxScaler are IEEE doubles, rounded as numpy rounds them.  A         *)
(* fraction is a record [n |-> numerator, d |-> denominator] with d > 0:   *)
(* the numbers of StandardScaler and of the chi-squared statistic are kept *)
(* exact, without the rounding of the doubles the code computes with.      *)
(*                                                                         *)
(* pandas, scikit-learn and scipy behave as the code uses them:            *)
(* scikit-learn below 1.4 (OneHotEncoder(sparse=False) is accepted) and    *)
(* pandas without copy-on-write (an inplace method on df[column] writes    *)
(* into df).                                                               *)
(*                                                                         *)
(* One specification per component: SpecPre, SpecAge, SpecScale,           *)
(* SpecEncode, SpecCramers, SpecIngest, SpecAnalyzer, SpecValueCounts,     *)
(* SpecInspector, SpecLabel, SpecRefit (one strategy object applied to     *)
(* table after table), SpecContext (FeatureEngineer and DataTransformer),  *)
(* SpecCopy (what a call does to the caller's table).  Each starts from    *)
(* the inputs of the component (a table, a directory listing, an object    *)
(* just constructed) and has one action per call of the component.         *)
(***************************************************************************)
EXTENDS Integers, Sequences, FiniteSets, TLC

VARIABLES
    df,        \* the caller's table, the argument of every call
    pre,       \* the caller's table as it was when the last call started
    ret,       \* the table the last call returned
    alias,     \* whether the table returned is the caller's table object
    call,      \* the last call: the strategy and its configuration
    raised,    \* the exception the last call raised, "" when it returned
    stdout,    \* what the last call printed, line by line
    files,     \* os.listdir of the directory handed to the ingestor
    strategy,  \* the strategy object a context holds
               \* (MultivariateAnalyzer.strategy, FeatureEngineer._strategy,
               \* DataTransformer._strategy), or the strategy object applied
    strategies,\* DataInspector.strategies
    lastSet,   \* what the caller handed to the context: the strategy of the
               \* constructor or of the last set_strategy, or the strategies
               \* of the add_strategy calls in the order of the calls
    invoked    \* the strategy calls the last call of the context made

tableVars == <<df, pre, ret, alias>>

analyzerVars == <<strategy, strategies, lastSet, invoked>>

vars == <<df, pre, ret, alias, call, raised, stdout, files, strategy,
          strategies, lastSet, invoked>>

(***************************************************************************)
(* Bounds of the model.                                                    *)
(***************************************************************************)
MaxRows == 3
MaxVal == 2

(***************************************************************************)
(* Cells, columns and tables.                                              *)
(***************************************************************************)
NaN == <<>>

isna(v) == v = NaN

notna(v) == v # NaN

Range(s) == {s[i] : i \in 1..Len(s)}

Cells(S) == {<<v>> : v \in S} \cup {NaN}

NRows(t) == Len(t.index)

\* pandas' default RangeIndex: 0, 1, ..., n-1
RangeIndex(n) == [i \in 1..n |-> i - 1]

\* the row labels a table can carry: the default ones, or the labels left
\* after rows were filtered out of a longer table (1, 3, 5, ...)
FilteredIndex(n) == [i \in 1..n |-> 2 * i - 1]

IndexChoices(n) == {RangeIndex(n), FilteredIndex(n)}

NoTable == [index |-> <<>>, columns |-> <<>>, data |-> <<>>]

NoCall == [op |-> "none"]

None == "None"

\* the parts of the state a component does not use
NoTables == df = NoTable /\ pre = NoTable /\ ret = NoTable /\ alias = FALSE

NoAnalyzer ==
    strategy = None /\ strategies = <<>> /\ lastSet = None /\ invoked = <<>>

NoFiles == files = <<>>

\* df[column] = values
SetColumn(t, column, values) ==
    [t EXCEPT !.data = [c \in DOMAIN t.data |->
                            IF c = column THEN values ELSE t.data[c]]]

\* df[mask]: the rows at the positions the boolean mask selects, in order
RECURSIVE Positions(_, _)
Positions(mask, i) ==
    IF i > Len(mask) THEN <<>>
    ELSE (IF mask[i] THEN <<i>> ELSE <<>>) \o Positions(mask, i + 1)

BooleanIndex(t, mask) ==
    LET keep == Positions(mask, 1)
    IN  [index |-> [j \in 1..Len(keep) |-> t.index[keep[j]]],
         columns |-> t.columns,
         data |-> [c \in DOMAIN t.data |->
                      [j \in 1..Len(keep) |-> t.data[c][keep[j]]]]]

SetMax(S) == CHOOSE m \in S : \A s \in S : s <= m

(***************************************************************************)
(* preprocess.py                                                           *)
(***************************************************************************)
NumVals == 1..MaxVal

GroupVals == {"A", "B"}

\* a table the preprocessing strategies are applied to
PreTable(tv, gv) ==
    [index |-> RangeIndex(Len(tv)), columns |-> <<"target", "group">>,
     data |-> [c \in {"target", "group"} |->
                  IF c = "target" THEN tv ELSE gv]]

SetMin(S) == CHOOSE m \in S : \A s \in S : m <= s

\* mutant: the group's minimum instead of its maximum
GroupByTransformMin(t, target_column, group_column) ==
    [i \in 1..NRows(t) |->
        LET key == t.data[group_column][i]
            members == {j \in 1..NRows(t) :
                            /\ t.data[group_column][j] = key
                            /\ notna(t.data[target_column][j])}
        IN  IF isna(key) \/ members = {} THEN NaN
            ELSE <<SetMin({t.data[target_column][j][1] : j \in members})>>]

\* df.groupby(group_column)[target_column].transform('max'): per row, the
\* maximum of the non-null target values of the rows with the same group
\* key; NaN when there is none, and for a row whose group key is NaN
\* (groupby drops NaN keys)
GroupByTransformMax(t, target_column, group_column) ==
    [i \in 1..NRows(t) |->
        LET key == t.data[group_column][i]
            members == {j \in 1..NRows(t) :
                            /\ t.data[group_column][j] = key
                            /\ notna(t.data[target_column][j])}
        IN  IF isna(key) \/ members = {} THEN NaN
            ELSE <<SetMax({t.data[target_column][j][1] : j \in members})>>]

\* Series.fillna(value): a scalar fills every NaN; a Series fills row by row
FillnaSeries(col, fill) ==
    [i \in 1..Len(col) |-> IF isna(col[i]) THEN fill[i] ELSE col[i]]

\* mutant: the value overwrites every cell, null or not
AssignScalar(col, value) == [i \in 1..Len(col) |-> <<value>>]

FillnaScalar(col, value) ==
    [i \in 1..Len(col) |-> IF isna(col[i]) THEN <<value>> ELSE col[i]]

\* Each transform gives the caller's table after the call and the table
\* returned; alias says that the two are one object.
ImputeByGroupMaxStrategy_transform(t, target_column, group_column) ==
    LET out == SetColumn(t, target_column,
                    FillnaSeries(t.data[target_column],
                        GroupByTransformMax(t, target_column, group_column)))
    IN  [df |-> out, ret |-> out, alias |-> TRUE]

ImputeWithDefaultValueStrategy_transform(t, target_column, default_value) ==
    LET out == SetColumn(t, target_column,
                    FillnaScalar(t.data[target_column], default_value))
    IN  [df |-> out, ret |-> out, alias |-> TRUE]

\* mutant: df.dropna(), a row goes when any of its columns is null
DropnaAnyColumn(t, target_column) ==
    LET mask == [i \in 1..NRows(t) |->
                    \A c \in DOMAIN t.data : notna(t.data[c][i])]
    IN  [df |-> t, ret |-> BooleanIndex(t, mask), alias |-> FALSE]

DeleteRowsWithMissingValuesStrategy_transform(t, target_column) ==
    LET mask == [i \in 1..NRows(t) |-> notna(t.data[target_column][i])]
    IN  [df |-> t, ret |-> BooleanIndex(t, mask), alias |-> FALSE]

\* mutant: the replacement chained through the dict, a replaced value
\* that is itself a key being replaced again
ReplaceChained(col, replacements) ==
    [i \in 1..Len(col) |->
        IF notna(col[i]) /\ col[i][1] \in DOMAIN replacements
        THEN LET w == replacements[col[i][1]]
             IN  IF w \in DOMAIN replacements THEN <<replacements[w]>>
                 ELSE <<w>>
        ELSE col[i]]

\* Series.replace(dict): every cell whose value is a key becomes the mapped
\* value; the masks are all taken on the values before any replacement
Replace(col, replacements) ==
    [i \in 1..Len(col) |->
        IF notna(col[i]) /\ col[i][1] \in DOMAIN replacements
        THEN <<replacements[col[i][1]]>> ELSE col[i]]

StandardizeValuesStrategy_transform(t, target_column, replacements) ==
    LET out == SetColumn(t, target_column,
                    Replace(t.data[target_column], replacements))
    IN  [df |-> out, ret |-> out, alias |-> TRUE]

\* the replacement dicts: partial maps of the column's values
Replacements(S) == UNION {[K -> S] : K \in SUBSET S}

ColumnVals(column) == IF column = "target" THEN NumVals ELSE GroupVals

ImputeByGroupMax ==
    LET r == ImputeByGroupMaxStrategy_transform(df, "target", "group")
    IN  /\ pre' = df
        /\ df' = r.df
        /\ ret' = r.ret
        /\ alias' = r.alias
        /\ call' = [op |-> "ImputeByGroupMax", target_column |-> "target",
                    group_column |-> "group"]
        /\ raised' = ""
        /\ UNCHANGED <<stdout, files, analyzerVars>>

ImputeWithDefaultValue ==
    \E default_value \in NumVals :
        LET r == ImputeWithDefaultValueStrategy_transform(df, "target",
                                                          default_value)
        IN  /\ pre' = df
            /\ df' = r.df
            /\ ret' = r.ret
            /\ alias' = r.alias
            /\ call' = [op |-> "ImputeWithDefaultValue",
                        target_column |-> "target",
                        default_value |-> default_value]
            /\ raised' = ""
            /\ UNCHANGED <<stdout, files, analyzerVars>>

DeleteRowsWithMissingValues ==
    \E target_column \in {"target", "group"} :
        LET r == DeleteRowsWithMissingValuesStrategy_transform(df,
                                                               target_column)
        IN  /\ pre' = df
            /\ df' = r.df
            /\ ret' = r.ret
            /\ alias' = r.alias
            /\ call' = [op |-> "DeleteRowsWithMissingValues",
                        target_column |-> target_column]
            /\ raised' = ""
            /\ UNCHANGED <<stdout, files, analyzerVars>>

StandardizeValues ==
    \E target_column \in {"group"} :
        \E replacements \in Replacements(ColumnVals(target_column)) :
            LET r == StandardizeValuesStrategy_transform(df, target_column,
                                                         replacements)
            IN  /\ pre' = df
                /\ df' = r.df
                /\ ret' = r.ret
                /\ alias' = r.alias
                /\ call' = [op |-> "StandardizeValues",
                            target_column |-> target_column,
                            replacements |-> replacements]
                /\ raised' = ""
                /\ UNCHANGED <<stdout, files, analyzerVars>>

InitPre ==
    /\ \E n \in 0..MaxRows :
        \E tv \in [1..n -> Cells(NumVals)],
           gv \in [1..n -> Cells(GroupVals)] : df = PreTable(tv, gv)
    /\ pre = NoTable
    /\ ret = NoTable
    /\ alias = FALSE
    /\ call = NoCall
    /\ raised = ""
    /\ stdout = <<>>
    /\ NoFiles
    /\ NoAnalyzer

NextPre ==
    \/ ImputeByGroupMax
    \/ ImputeWithDefaultValue
    \/ DeleteRowsWithMissingValues
    \/ StandardizeValues

SpecPre == InitPre /\ [][NextPre]_vars

(***************************************************************************)
(* Claims on preprocess.py, checked under SpecPre.                         *)
(***************************************************************************)
\* the non-null target values of the rows that share row i's group value
\* (a null group value is shared with no row)
GroupTargets(t, target_column, group_column, i) ==
    {t.data[target_column][j][1] :
        j \in {k \in 1..NRows(t) :
                  /\ notna(t.data[group_column][i])
                  /\ t.data[group_column][k] = t.data[group_column][i]
                  /\ notna(t.data[target_column][k])}}

IsMaxOf(m, S) == m \in S /\ \A s \in S : s <= m

\* C1 as stated: after ImputeByGroupMaxStrategy.transform every row whose
\* target was null holds the maximum non-null target of its group, and
\* every row whose target was non-null keeps its value.
C1_EveryNullGetsGroupMax ==
    call.op = "ImputeByGroupMax" =>
        \A i \in 1..NRows(pre) :
            LET old == pre.data[call.target_column][i]
                new == ret.data[call.target_column][i]
                S == GroupTargets(pre, call.target_column,
                                  call.group_column, i)
            IN  IF isna(old)
                THEN notna(new) /\ IsMaxOf(new[1], S)
                ELSE new = old

\* C1 amended: a row whose target was null holds the maximum non-null
\* target of its group when its group value is non-null and the group has a
\* non-null target, and stays null otherwise; a row whose target was
\* non-null keeps its value; the caller's table is the table returned.
C1_NullGetsGroupMaxWhenThereIsOne ==
    call.op = "ImputeByGroupMax" =>
        /\ ret = df
        /\ NRows(ret) = NRows(pre)
        /\ \A i \in 1..NRows(pre) :
            LET old == pre.data[call.target_column][i]
                new == ret.data[call.target_column][i]
                S == GroupTargets(pre, call.target_column,
                                  call.group_column, i)
            IN  IF isna(old)
                THEN IF S = {} THEN isna(new)
                     ELSE notna(new) /\ IsMaxOf(new[1], S)
                ELSE new = old

\* C1 witness: a null target was filled from a group that holds two
\* different non-null targets.
C1_Witness ==
    /\ call.op = "ImputeByGroupMax"
    /\ \E i \in 1..NRows(pre) :
        /\ isna(pre.data["target"][i])
        /\ Cardinality(GroupTargets(pre, "target", "group", i)) = 2
        /\ notna(ret.data["target"][i])

\* the positions of the rows of t whose target_column cell is non-null
NonNullRows(t, target_column) ==
    {i \in 1..NRows(t) : notna(t.data[target_column][i])}

\* C3: DeleteRowsWithMissingValuesStrategy.transform returns exactly the
\* input rows whose target-column value was non-null, in their original
\* order, every column value (and row label) of a kept row as in the input.
C3_DeleteKeepsExactlyNonNullRows ==
    call.op = "DeleteRowsWithMissingValues" =>
        LET keep == NonNullRows(pre, call.target_column)
        IN  /\ NRows(ret) = Cardinality(keep)
            /\ ret.columns = pre.columns
            /\ \A c \in DOMAIN ret.data : Len(ret.data[c]) = NRows(ret)
            /\ \A i \in keep :
                LET j == Cardinality({k \in keep : k <= i})
                IN  /\ ret.index[j] = pre.index[i]
                    /\ \A c \in Range(pre.columns) :
                           ret.data[c][j] = pre.data[c][i]

\* C3 witness: a row with a null target was dropped from between two kept
\* rows, and a kept row has a null in the other column.
C3_Witness ==
    /\ call.op = "DeleteRowsWithMissingValues"
    /\ call.target_column = "target"
    /\ NRows(pre) = 3
    /\ NonNullRows(pre, "target") = {1, 3}
    /\ NRows(ret) = 2
    /\ isna(ret.data["group"][2])

\* C4: in the table StandardizeValuesStrategy.transform returns, a cell
\* whose value before the call is a key of the replacement mapping holds the
\* mapped value (the mapping applied once), and every other cell is as
\* before.
C4_StandardizeMapsOnce ==
    call.op = "StandardizeValues" =>
        /\ NRows(ret) = NRows(pre)
        /\ \A i \in 1..NRows(pre) :
            LET old == pre.data[call.target_column][i]
                new == ret.data[call.target_column][i]
            IN  IF notna(old) /\ old[1] \in DOMAIN call.replacements
                THEN new = <<call.replacements[old[1]]>>
                ELSE new = old
        /\ \A c \in Range(pre.columns) \ {call.target_column} :
               ret.data[c] = pre.data[c]

\* C4 witness: a mapping whose values are themselves keys (A to B, B to A)
\* was applied to a column that holds both keys and a null.
C4_Witness ==
    /\ call.op = "StandardizeValues"
    /\ DOMAIN call.replacements = {"A", "B"}
    /\ call.replacements["A"] = "B"
    /\ call.replacements["B"] = "A"
    /\ pre.data["group"] = <<<<"A">>, <<"B">>, NaN>>
    /\ ret.data["group"] = <<<<"B">>, <<"A">>, NaN>>

\* C5: after ImputeWithDefaultValueStrategy.transform every row whose target
\* was null holds the configured default, every other row keeps its value,
\* and the table has as many rows as before.
C5_NullGetsDefault ==
    call.op = "ImputeWithDefaultValue" =>
        /\ ret = df
        /\ NRows(ret) = NRows(pre)
        /\ Len(ret.data[call.target_column]) = NRows(pre)
        /\ \A i \in 1..NRows(pre) :
            LET old == pre.data[call.target_column][i]
                new == ret.data[call.target_column][i]
            IN  IF isna(old) THEN new = <<call.default_value>>
                ELSE new = old

\* C5 witness: a null was filled with the default next to a row that holds
\* another value.
C5_Witness ==
    /\ call.op = "ImputeWithDefaultValue"
    /\ \E i, j \in 1..NRows(pre) :
        /\ isna(pre.data["target"][i])
        /\ ret.data["target"][i] = <<call.default_value>>
        /\ notna(pre.data["target"][j])
        /\ ret.data["target"][j] # <<call.default_value>>

(***************************************************************************)
(* Table operations and exact fractions used by feature_engineering.py.    *)
(***************************************************************************)
\* DataFrame.drop(columns=names)
DropColumns(t, names) ==
    [index |-> t.index,
     columns |-> SelectSeq(t.columns, LAMBDA c : c \notin names),
     data |-> [c \in DOMAIN t.data \ names |-> t.data[c]]]

\* df[column] = values, for a column the table has (replaced in place) or
\* has not (appended as the last column)
AssignColumn(t, column, values) ==
    [index |-> t.index,
     columns |-> IF column \in Range(t.columns) THEN t.columns
                 ELSE Append(t.columns, column),
     data |-> [c \in DOMAIN t.data \cup {column} |->
                  IF c = column THEN values ELSE t.data[c]]]

\* DataFrame.reset_index(drop=True)
ResetIndex(t) == [t EXCEPT !.index = RangeIndex(NRows(t))]

\* the position of a row label in an index, 0 when it is not there
PositionOf(index, label) ==
    IF \E i \in 1..Len(index) : index[i] = label
    THEN CHOOSE i \in 1..Len(index) : index[i] = label
    ELSE 0

\* pd.concat([a, b], axis=1): the rows are aligned on their labels (the
\* labels of a, then those only b has), a missing cell is NaN
ConcatColumns(a, b) ==
    LET labels == a.index \o SelectSeq(b.index,
                                LAMBDA l : PositionOf(a.index, l) = 0)
        Cell(t, c, l) == IF PositionOf(t.index, l) = 0 THEN NaN
                         ELSE t.data[c][PositionOf(t.index, l)]
    IN  [index |-> labels,
         columns |-> a.columns \o b.columns,
         data |-> [c \in DOMAIN a.data \cup DOMAIN b.data |->
                      [i \in 1..Len(labels) |->
                          IF c \in DOMAIN a.data THEN Cell(a, c, labels[i])
                          ELSE Cell(b, c, labels[i])]]]

Abs(x) == IF x < 0 THEN -x ELSE x

RECURSIVE GCD(_, _)
GCD(a, b) == IF b = 0 THEN a ELSE GCD(b, a % b)

\* the fraction n/d (d # 0) in lowest terms, with a positive denominator
Frac(n, d) ==
    LET g == GCD(Abs(n), Abs(d))
        sgn == IF d < 0 THEN -1 ELSE 1
    IN  [n |-> sgn * (n \div g), d |-> sgn * (d \div g)]

FAdd(a, b) == Frac(a.n * b.d + b.n * a.d, a.d * b.d)

FSub(a, b) == Frac(a.n * b.d - b.n * a.d, a.d * b.d)

FMul(a, b) == Frac(a.n * b.n, a.d * b.d)

FInt(i) == [n |-> i, d |-> 1]

FLeq(a, b) == a.n * b.d <= b.n * a.d

(***************************************************************************)
(* feature_engineering.py: OutletAGECalcation                              *)
(***************************************************************************)
ReferenceYear == 2024

YearVals == {2000, 2010}

\* mutant: column - 2024
AgeToYears(col) ==
    [i \in 1..Len(col) |->
        IF isna(col[i]) THEN NaN ELSE <<col[i][1] - 2024>>]

\* 2024 - column: NaN stays NaN
YearsToAge(col) ==
    [i \in 1..Len(col) |->
        IF isna(col[i]) THEN NaN ELSE <<ReferenceYear - col[i][1]>>]

\* The result of an apply_transformation: the exception raised ("" when
\* none), the caller's table after the call, the table returned.
OutletAGECalcation_apply_transformation(t, new_feature, old_feature) ==
    IF old_feature \notin Range(t.columns)
    THEN [raised |-> "KeyError", alias |-> FALSE, df |-> t, ret |-> NoTable]
    ELSE LET df_transformed ==
                 AssignColumn(t, new_feature, YearsToAge(t.data[old_feature]))
         IN  [raised |-> "", alias |-> FALSE, df |-> t,
              ret |-> DropColumns(df_transformed, {old_feature})]

\* a table with the year column and another column
AgeTable(ix, yv, sv) ==
    [index |-> ix, columns |-> <<"year_built", "sales">>,
     data |-> [c \in {"year_built", "sales"} |->
                  IF c = "year_built" THEN yv ELSE sv]]

OutletAGE ==
    \E new_feature \in {"age", "year_built", "sales"},
       old_feature \in {"year_built", "year"} :
        LET r == OutletAGECalcation_apply_transformation(df, new_feature,
                                                         old_feature)
        IN  /\ pre' = df
            /\ df' = r.df
            /\ ret' = r.ret
            /\ alias' = r.alias
            /\ call' = [op |-> "OutletAGECalcation",
                        new_feature |-> new_feature,
                        old_feature |-> old_feature]
            /\ raised' = r.raised
            /\ UNCHANGED <<stdout, files, analyzerVars>>

InitAge ==
    /\ \E n \in 0..MaxRows :
        \E ix \in IndexChoices(n),
           yv \in [1..n -> Cells(YearVals)],
           sv \in [1..n -> Cells(NumVals) \ {NaN}] : df = AgeTable(ix, yv, sv)
    /\ pre = NoTable
    /\ ret = NoTable
    /\ alias = FALSE
    /\ call = NoCall
    /\ raised = ""
    /\ stdout = <<>>
    /\ NoFiles
    /\ NoAnalyzer

NextAge == OutletAGE

SpecAge == InitAge /\ [][NextAge]_vars

\* C2 as stated: for a table that has old_feature and for any new_feature
\* name, the table OutletAGECalcation.apply_transformation returns has in
\* every row new_feature = 2024 - old_feature, and has no old_feature column.
C2_AgeForAnyNewName ==
    (call.op = "OutletAGECalcation"
        /\ call.old_feature \in Range(pre.columns)) =>
        /\ raised = ""
        /\ call.new_feature \in Range(ret.columns)
        /\ call.new_feature \in DOMAIN ret.data
        /\ \A i \in 1..NRows(pre) :
            LET year == pre.data[call.old_feature][i]
                age == ret.data[call.new_feature][i]
            IN  IF isna(year) THEN isna(age)
                ELSE notna(age) /\ age[1] + year[1] = 2024
        /\ call.old_feature \notin Range(ret.columns)
        /\ call.old_feature \notin DOMAIN ret.data

\* C2 amended: the same for any new_feature name other than old_feature;
\* with new_feature = old_feature the returned table has neither column.
C2_AgeForAnotherName ==
    (call.op = "OutletAGECalcation"
        /\ call.old_feature \in Range(pre.columns)) =>
        /\ raised = ""
        /\ NRows(ret) = NRows(pre)
        /\ call.old_feature \notin Range(ret.columns)
        /\ call.old_feature \notin DOMAIN ret.data
        /\ IF call.new_feature = call.old_feature
           THEN call.new_feature \notin Range(ret.columns)
           ELSE /\ call.new_feature \in Range(ret.columns)
                /\ call.new_feature \in DOMAIN ret.data
                /\ Len(ret.data[call.new_feature]) = NRows(pre)
                /\ \A i \in 1..NRows(pre) :
                    LET year == pre.data[call.old_feature][i]
                        age == ret.data[call.new_feature][i]
                    IN  IF isna(year) THEN isna(age)
                        ELSE notna(age) /\ age[1] + year[1] = 2024

\* C2 witness: year_built = [2000, 2010] gave age = [24, 14], with
\* year_built dropped.
C2_Witness ==
    /\ call.op = "OutletAGECalcation"
    /\ raised = ""
    /\ call.new_feature = "age"
    /\ pre.data["year_built"] = <<<<2000>>, <<2010>>>>
    /\ ret.data["age"] = <<<<24>>, <<14>>>>
    /\ ret.columns = <<"sales", "age">>

(***************************************************************************)
(* feature_engineering.py: MinMaxScaling                                   *)
(***************************************************************************)
\* the values a column holds, its NaN cells left out
Values(col) == {col[i][1] : i \in {k \in 1..Len(col) : notna(col[k])}}

(***************************************************************************)
(* IEEE 754 doubles, as numpy computes with them.  A double is a record    *)
(* [s |-> sign (-1, 0, 1), m |-> magnitude]; the magnitude counts units of *)
(* 2^-62 and is kept as three limbs of 24 bits, the lowest first: the      *)
(* value is s * (m[3] * 2^48 + m[2] * 2^24 + m[1]) * 2^-62.  Every double  *)
(* of a min-max scaling of integers below 2^10 in magnitude over a data    *)
(* range below 128 is such a number: the quotient (hi - lo) / data_range   *)
(* is at least 2^-7, so its last place is at least 2^-60, and products of  *)
(* it with integers and sums of these are multiples of that.  An           *)
(* operation gives the exact result rounded to 53 significant bits, ties   *)
(* to the even neighbour.                                                  *)
(***************************************************************************)
Limb == 2^24

DoubleZero == [s |-> 0, m |-> <<0, 0, 0>>]

\* the double of an integer (exact)
DoubleInt(k) ==
    IF k = 0 THEN DoubleZero
    ELSE [s |-> IF k < 0 THEN -1 ELSE 1, m |-> <<0, 0, Abs(k) * 2^14>>]

MagLess(a, b) ==
    \/ a[3] < b[3]
    \/ a[3] = b[3] /\ a[2] < b[2]
    \/ a[3] = b[3] /\ a[2] = b[2] /\ a[1] < b[1]

MagAdd(a, b) ==
    LET s1 == a[1] + b[1]
        s2 == a[2] + b[2] + (s1 \div Limb)
        s3 == a[3] + b[3] + (s2 \div Limb)
    IN  <<s1 % Limb, s2 % Limb, s3>>

\* a - b for a >= b
MagSub(a, b) ==
    LET d1 == a[1] - b[1]
        b1 == IF d1 < 0 THEN 1 ELSE 0
        d2 == a[2] - b[2] - b1
        b2 == IF d2 < 0 THEN 1 ELSE 0
    IN  <<d1 + b1 * Limb, d2 + b2 * Limb, a[3] - b[3] - b2>>

\* a * k for an integer 0 <= k < 128
MagMul(a, k) ==
    LET p1 == a[1] * k
        p2 == a[2] * k + (p1 \div Limb)
        p3 == a[3] * k + (p2 \div Limb)
    IN  <<p1 % Limb, p2 % Limb, p3>>

\* the number of bits of 0 <= x < 2^24
BitLen(x) == CHOOSE b \in 0..24 : x < 2^b /\ (b = 0 \/ x >= 2^(b - 1))

MagBitLen(a) ==
    IF a[3] > 0 THEN 48 + BitLen(a[3])
    ELSE IF a[2] > 0 THEN 24 + BitLen(a[2])
    ELSE BitLen(a[1])

\* the magnitude a, plus a positive part below one unit when sticky, rounded
\* to 53 significant bits, ties to even (the bits dropped are fewer than 24)
RoundToDouble(a, sticky) ==
    LET d == MagBitLen(a) - 53
    IN  IF d <= 0 THEN a
        ELSE LET low == a[1] % 2^d
                 half == 2^(d - 1)
                 odd == (a[1] \div 2^d) % 2 = 1
                 up == \/ low > half
                       \/ low = half /\ (sticky \/ odd)
                 truncated == <<a[1] - low, a[2], a[3]>>
             IN  IF up THEN MagAdd(truncated, <<2^d, 0, 0>>) ELSE truncated

\* w / r in doubles, for integers w and 1 <= r < 128 with |w| / r >= 2^-8
DoubleDiv(w, r) ==
    IF w = 0 THEN DoubleZero
    ELSE LET n3 == Abs(w) * 2^14
             q3 == n3 \div r
             t2 == (n3 % r) * Limb
             q2 == t2 \div r
             t1 == (t2 % r) * Limb
             q1 == t1 \div r
         IN  [s |-> IF w < 0 THEN -1 ELSE 1,
              m |-> RoundToDouble(<<q1, q2, q3>>, t1 % r # 0)]

\* k * a in doubles, for an integer |k| < 128 (a double itself)
DoubleMul(k, a) ==
    IF k = 0 \/ a.s = 0 THEN DoubleZero
    ELSE [s |-> IF k < 0 THEN -a.s ELSE a.s,
          m |-> RoundToDouble(MagMul(a.m, Abs(k)), FALSE)]

\* a + b in doubles
DoubleAdd(a, b) ==
    IF a.s = 0 THEN b
    ELSE IF b.s = 0 THEN a
    ELSE IF a.s = b.s
    THEN [s |-> a.s, m |-> RoundToDouble(MagAdd(a.m, b.m), FALSE)]
    ELSE IF a.m = b.m THEN DoubleZero
    ELSE IF MagLess(b.m, a.m)
    THEN [s |-> a.s, m |-> RoundToDouble(MagSub(a.m, b.m), FALSE)]
    ELSE [s |-> b.s, m |-> RoundToDouble(MagSub(b.m, a.m), FALSE)]

\* a - b in doubles
DoubleSub(a, b) == DoubleAdd(a, [b EXCEPT !.s = -b.s])

\* a <= b
DoubleLeq(a, b) ==
    \/ a.s < b.s
    \/ a.s = b.s /\ a.s = 0
    \/ a.s = b.s /\ a.s = 1 /\ ~MagLess(b.m, a.m)
    \/ a.s = b.s /\ a.s = -1 /\ ~MagLess(a.m, b.m)

\* MinMaxScaler.transform of one column of integers with the fitted
\* data_min_ and data_max_, in doubles as numpy computes it: scale_ =
\* (hi - lo) / data_range with a zero range taken as 1, min_ = lo -
\* data_min_ * scale_, then X *= scale_ and X += min_, NaN kept
MinMaxTransform(data_min, data_max, col, lo, hi) ==
    LET data_range == data_max - data_min
        scale_ == DoubleDiv(hi - lo, IF data_range = 0 THEN 1 ELSE data_range)
        min_ == DoubleSub(DoubleInt(lo), DoubleMul(data_min, scale_))
    IN  [i \in 1..Len(col) |->
            IF isna(col[i]) THEN NaN
            ELSE <<DoubleAdd(DoubleMul(col[i][1], scale_), min_)>>]

\* sklearn's MinMaxScaler.fit_transform on one column: fit (data_min_,
\* data_max_ over the non-NaN values), then transform; a column of NaN
\* stays as it is
MinMaxScalerColumn(col, lo, hi) ==
    IF Values(col) = {} THEN [i \in 1..Len(col) |-> NaN]
    ELSE MinMaxTransform(SetMin(Values(col)), SetMax(Values(col)), col,
                         lo, hi)

\* fit_transform raises ValueError for a range with lo >= hi and for a
\* table without rows
MinMaxScaling_apply_transformation(t, features, feature_range) ==
    LET lo == feature_range[1]
        hi == feature_range[2]
    IN  IF lo >= hi \/ NRows(t) = 0
        THEN [raised |-> "ValueError", alias |-> FALSE, df |-> t,
              ret |-> NoTable]
        ELSE [raised |-> "", alias |-> FALSE, df |-> t,
              ret |-> [t EXCEPT !.data =
                          [c \in DOMAIN t.data |->
                              IF c \in Range(features)
                              THEN MinMaxScalerColumn(t.data[c], lo, hi)
                              ELSE t.data[c]]]]

ScaleVals == 0..MaxVal

\* the values of the second numeric column: with a data range of 7 the
\* quotient (hi - lo) / 7 is no double
OtherVals == {3, 10}

\* a table with two numeric columns
ScaleTable(xv, yv) ==
    [index |-> RangeIndex(Len(xv)), columns |-> <<"x", "y">>,
     data |-> [c \in {"x", "y"} |-> IF c = "x" THEN xv ELSE yv]]

FeatureRanges == {<<0, 1>>, <<-1, 1>>, <<1, 3>>, <<1, 0>>}

MinMax ==
    \E features \in {<<"x">>, <<"x", "y">>},
       feature_range \in FeatureRanges :
        LET r == MinMaxScaling_apply_transformation(df, features,
                                                    feature_range)
        IN  /\ pre' = df
            /\ df' = r.df
            /\ ret' = r.ret
            /\ alias' = r.alias
            /\ call' = [op |-> "MinMaxScaling", features |-> features,
                        feature_range |-> feature_range]
            /\ raised' = r.raised
            /\ UNCHANGED <<stdout, files, analyzerVars>>

InitScale ==
    /\ \E n \in 0..MaxRows :
        \E xv \in [1..n -> Cells(ScaleVals)],
           yv \in [1..n -> Cells(OtherVals) \ {NaN}] : df = ScaleTable(xv, yv)
    /\ pre = NoTable
    /\ ret = NoTable
    /\ alias = FALSE
    /\ call = NoCall
    /\ raised = ""
    /\ stdout = <<>>
    /\ NoFiles
    /\ NoAnalyzer

NextScale == MinMax

SpecScale == InitScale /\ [][NextScale]_vars

\* the double q is lo + (v - min) * (hi - lo) / (max - min), for max > min
IsScaled(q, v, min, max, lo, hi) ==
    [s |-> q.s, m |-> MagMul(q.m, max - min)]
        = DoubleInt(lo * (max - min) + (v - min) * (hi - lo))

\* C7: the table MinMaxScaling.apply_transformation returns for feature_range
\* (lo, hi) has, in each configured column whose input values are not all
\* equal, minimum lo and maximum hi, every value v mapped to
\* lo + (v - min) * (hi - lo) / (max - min); the other columns are as in the
\* input.  Violated: the doubles of x = [3, 10] scaled into (0, 1) are 0 and
\* 1 - 2^-52.
C7_MinMaxScalesLinearly ==
    (call.op = "MinMaxScaling" /\ raised = "") =>
        LET lo == call.feature_range[1]
            hi == call.feature_range[2]
        IN  /\ ret.index = pre.index
            /\ ret.columns = pre.columns
            /\ \A c \in Range(pre.columns) \ Range(call.features) :
                   ret.data[c] = pre.data[c]
            /\ \A c \in Range(call.features) :
                LET V == Values(pre.data[c])
                IN  Cardinality(V) >= 2 =>
                    /\ \E min, max \in V :
                        /\ IsMaxOf(max, V)
                        /\ \A v \in V : min <= v
                        /\ \A i \in 1..NRows(pre) :
                            IF isna(pre.data[c][i]) THEN isna(ret.data[c][i])
                            ELSE /\ notna(ret.data[c][i])
                                 /\ IsScaled(ret.data[c][i][1],
                                             pre.data[c][i][1],
                                             min, max, lo, hi)
                    /\ \E i \in 1..NRows(ret) :
                           ret.data[c][i] = <<DoubleInt(lo)>>
                    /\ \E i \in 1..NRows(ret) :
                           ret.data[c][i] = <<DoubleInt(hi)>>
                    /\ \A i \in 1..NRows(ret) :
                        notna(ret.data[c][i]) =>
                            /\ DoubleLeq(DoubleInt(lo), ret.data[c][i][1])
                            /\ DoubleLeq(ret.data[c][i][1], DoubleInt(hi))

(***************************************************************************)
(* feature_engineering.py: OneHotEncoding                                  *)
(***************************************************************************)
\* the category values of the model, in sorted order
SortedCategories == <<"High", "Low", "Medium", "No", "Yes">>

FeatureVals(feature) ==
    IF feature = "size" THEN {"High", "Low", "Medium"} ELSE {"No", "Yes"}

\* OneHotEncoder.categories_ of one column: its distinct values sorted,
\* then NaN when the column has a NaN
Categories(col) ==
    [i \in 1..Len(SelectSeq(SortedCategories, LAMBDA v : v \in Values(col)))
        |-> <<SelectSeq(SortedCategories, LAMBDA v : v \in Values(col))[i]>>]
    \o (IF \E i \in 1..Len(col) : isna(col[i]) THEN <<NaN>> ELSE <<>>)

\* drop="first": every category of the column but the first
KeptCategories(col) == Tail(Categories(col))

\* get_feature_names_out: <feature>_<category>
FeatureName(feature, category) ==
    feature \o "_" \o (IF isna(category) THEN "nan" ELSE category[1])

\* the (feature, category) pairs of the encoded columns, feature by feature
RECURSIVE EncodedPairs(_, _)
EncodedPairs(t, features) ==
    IF features = <<>> THEN <<>>
    ELSE LET f == Head(features)
             kept == KeptCategories(t.data[f])
         IN  [j \in 1..Len(kept) |-> <<f, kept[j]>>]
             \o EncodedPairs(t, Tail(features))

\* pd.DataFrame(encoder.fit_transform(df[features]),
\*              columns=encoder.get_feature_names_out(features))
EncodedFrame(t, features) ==
    LET pairs == EncodedPairs(t, features)
        names == [j \in 1..Len(pairs) |-> FeatureName(pairs[j][1], pairs[j][2])]
    IN  [index |-> RangeIndex(NRows(t)),
         columns |-> names,
         data |-> [c \in Range(names) |->
                      LET j == CHOOSE k \in 1..Len(pairs) : names[k] = c
                      IN  [i \in 1..NRows(t) |->
                              IF t.data[pairs[j][1]][i] = pairs[j][2]
                              THEN <<1>> ELSE <<0>>]]]

\* mutant: the index of the table is kept, not reset, before the concat
OneHotEncodingKeepsIndex(t, features) ==
    IF NRows(t) = 0
    THEN [raised |-> "ValueError", alias |-> FALSE, df |-> t, ret |-> NoTable]
    ELSE [raised |-> "", alias |-> FALSE, df |-> t,
          ret |-> ConcatColumns(DropColumns(t, Range(features)),
                                EncodedFrame(t, features))]

\* fit_transform raises ValueError for a table without rows
OneHotEncoding_apply_transformation(t, features) ==
    IF NRows(t) = 0
    THEN [raised |-> "ValueError", alias |-> FALSE, df |-> t, ret |-> NoTable]
    ELSE [raised |-> "", alias |-> FALSE, df |-> t,
          ret |-> ConcatColumns(
                      ResetIndex(DropColumns(t, Range(features))),
                      EncodedFrame(t, features))]

\* a table with two categorical columns and another column
EncodeTable(ix, sv, fv) ==
    [index |-> ix, columns |-> <<"id", "size", "flag">>,
     data |-> [c \in {"id", "size", "flag"} |->
                  IF c = "id" THEN [i \in 1..Len(ix) |-> <<i>>]
                  ELSE IF c = "size" THEN sv ELSE fv]]

OneHot ==
    \E features \in {<<"size">>, <<"flag">>, <<"size", "flag">>,
                     <<"flag", "size">>} :
        LET r == OneHotEncoding_apply_transformation(df, features)
        IN  /\ pre' = df
            /\ df' = r.df
            /\ ret' = r.ret
            /\ alias' = r.alias
            /\ call' = [op |-> "OneHotEncoding", features |-> features]
            /\ raised' = r.raised
            /\ UNCHANGED <<stdout, files, analyzerVars>>

InitEncode ==
    /\ \E n \in 0..MaxRows :
        \E ix \in IndexChoices(n),
           sv \in [1..n -> Cells(FeatureVals("size"))],
           fv \in [1..n -> Cells(FeatureVals("flag")) \ {NaN}] :
            df = EncodeTable(ix, sv, fv)
    /\ pre = NoTable
    /\ ret = NoTable
    /\ alias = FALSE
    /\ call = NoCall
    /\ raised = ""
    /\ stdout = <<>>
    /\ NoFiles
    /\ NoAnalyzer

NextEncode == OneHot

SpecEncode == InitEncode /\ [][NextEncode]_vars

\* the distinct categories of a column, NaN counted as one
DistinctCells(col) == {col[i] : i \in 1..Len(col)}

\* the indicator columns of a feature in the returned table
IndicatorColumns(t, feature) ==
    {c \in Range(t.columns) :
        \E v \in Cells(FeatureVals(feature)) : c = FeatureName(feature, v)}

\* C6: the table OneHotEncoding.apply_transformation returns has, for each
\* configured feature with k distinct categories, exactly k - 1 indicator
\* columns and not the feature's column; it has the rows of the input at
\* their positions, whatever their labels; a row has at most one indicator
\* of the feature set, the one of its category, and none when its category
\* is the dropped baseline.
C6_OneHotIndicators ==
    (call.op = "OneHotEncoding" /\ raised = "") =>
        /\ NRows(ret) = NRows(pre)
        /\ \A c \in Range(ret.columns) : Len(ret.data[c]) = NRows(pre)
        /\ \A c \in Range(pre.columns) \ Range(call.features) :
               c \in Range(ret.columns) /\ ret.data[c] = pre.data[c]
        /\ \A f \in Range(call.features) :
            LET ind == IndicatorColumns(ret, f)
                cats == DistinctCells(pre.data[f])
            IN  /\ f \notin Range(ret.columns)
                /\ Cardinality(ind) = Cardinality(cats) - 1
                /\ \E baseline \in cats :
                    \A i \in 1..NRows(pre) :
                        LET set == {c \in ind : ret.data[c][i] = <<1>>}
                            own == FeatureName(f, pre.data[f][i])
                        IN  /\ \A c \in ind : ret.data[c][i] \in {<<0>>, <<1>>}
                            /\ IF pre.data[f][i] = baseline THEN set = {}
                               ELSE set = {own}

\* C6 witness: a table whose row labels are not 0, 1, 2 and whose feature
\* has three categories was encoded into two indicator columns, one row
\* being all zeros and the other two having one indicator each.
C6_Witness ==
    /\ call.op = "OneHotEncoding"
    /\ raised = ""
    /\ call.features = <<"size">>
    /\ pre.index = <<1, 3, 5>>
    /\ pre.data["size"] = <<<<"Medium">>, <<"High">>, <<"Low">>>>
    /\ ret.columns = <<"id", "flag", "size_Low", "size_Medium">>
    /\ ret.data["size_Low"] = <<<<0>>, <<0>>, <<1>>>>
    /\ ret.data["size_Medium"] = <<<<1>>, <<0>>, <<0>>>>
    /\ ret.data["id"] = pre.data["id"]

(***************************************************************************)
(* multiveriate_analysis.py: CramersVStrategy                              *)
(*                                                                         *)
(* An entry of the matrix is kept as its square, chi2 / (n * (min(r, k) -  *)
(* 1)), an exact fraction: the entry is 1 (is 0, lies in [0, 1]) exactly   *)
(* when its square is (does).  The float division 0.0 / 0 gives NaN.       *)
(***************************************************************************)
FDiv(a, b) == Frac(a.n * b.d, a.d * b.n)

FAbs(a) == [n |-> Abs(a.n), d |-> a.d]

FMin(a, b) == IF FLeq(a, b) THEN a ELSE b

FSign(a) == IF a.n > 0 THEN FInt(1) ELSE IF a.n < 0 THEN FInt(-1) ELSE FInt(0)

RECURSIVE FSum(_, _)
FSum(f, S) ==
    IF S = {} THEN FInt(0)
    ELSE LET x == CHOOSE y \in S : TRUE
         IN  FAdd(f[x], FSum(f, S \ {x}))

\* mutant: the codes in the order in which the values first appear
LabelEncodeFirstSeen(col) ==
    [i \in 1..Len(col) |->
        LET first == CHOOSE j \in 1..Len(col) :
                        /\ col[j] = col[i]
                        /\ \A k \in 1..(j - 1) : col[k] # col[i]
        IN  Cardinality({col[k] : k \in 1..(first - 1)})]

\* LabelEncoder.fit_transform: the code of a value is its rank among the
\* column's sorted distinct values, from 0
LabelEncode(col) ==
    LET classes == SelectSeq(SortedCategories, LAMBDA v : v \in Values(col))
    IN  [i \in 1..Len(col) |->
            (CHOOSE j \in 1..Len(classes) : classes[j] = col[i][1]) - 1]

\* pd.crosstab(x, y): the count of every pair of an x value and a y value
Crosstab(x, y) ==
    [a \in Range(x), b \in Range(y) |->
        Cardinality({i \in 1..Len(x) : x[i] = a /\ y[i] = b})]

\* scipy.stats.chi2_contingency(cross_tab): the statistic, 0 when the table
\* has a single row or column (dof = 0), with Yates' continuity correction
\* when dof = 1; the degrees of freedom; the expected frequencies.  The
\* p-value is the upper tail of the chi-squared distribution of dof degrees
\* of freedom at the statistic (1 when dof = 0).
chi2_contingency(x, y) ==
    LET observed == Crosstab(x, y)
        rows == Range(x)
        cols == Range(y)
        n == Len(x)
        dof == (Cardinality(rows) - 1) * (Cardinality(cols) - 1)
        expected == [a \in rows, b \in cols |->
                        Frac(Cardinality({i \in 1..n : x[i] = a})
                                 * Cardinality({i \in 1..n : y[i] = b}), n)]
        corrected == [a \in rows, b \in cols |->
                        LET diff == FSub(expected[a, b], FInt(observed[a, b]))
                        IN  IF dof = 1
                            THEN FAdd(FInt(observed[a, b]),
                                      FMul(FMin(Frac(1, 2), FAbs(diff)),
                                           FSign(diff)))
                            ELSE FInt(observed[a, b])]
        term == [a \in rows, b \in cols |->
                    LET d == FSub(corrected[a, b], expected[a, b])
                    IN  FDiv(FMul(d, d), expected[a, b])]
    IN  [chi2 |-> IF dof = 0 THEN FInt(0) ELSE FSum(term, rows \X cols),
         dof |-> dof,
         expected |-> expected]

\* the square of cramers_v(x, y); NaN when min(r, k) = 1
cramers_v(x, y) ==
    LET chi2 == chi2_contingency(x, y).chi2
        n == Len(x)
        r == Cardinality(Range(x))
        k == Cardinality(Range(y))
        m == IF r <= k THEN r ELSE k
    IN  IF n * (m - 1) = 0 THEN NaN
        ELSE <<FDiv(chi2, FInt(n * (m - 1)))>>

\* LabelEncoder.fit_transform on a column of numbers: the rank of a value
\* among the column's distinct values, from 0
LabelEncodeNumbers(col) ==
    [i \in 1..Len(col) |->
        Cardinality({v \in Values(col) : v < col[i][1]})]

\* whether pandas gives the column the dtype object: the columns of strings
\* of the tables here
is_object_dtype(column) == column \in {"size", "flag", "group"}

\* the dtype pandas gives a column of a table built from strings, integers
\* and None: object for strings, int64 for integers, float64 for integers
\* with a NaN among them
dtype(t, column) ==
    IF is_object_dtype(column) THEN "object"
    ELSE IF \E i \in 1..NRows(t) : isna(t.data[column][i]) THEN "float64"
    ELSE "int64"

\* the matrix analyze prints
CramersVStrategy_analyze(t, features) ==
    LET encoded_df == [c \in Range(features) |->
                          IF is_object_dtype(c) THEN LabelEncode(t.data[c])
                          ELSE LabelEncodeNumbers(t.data[c])]
    IN  [col1 \in Range(features), col2 \in Range(features) |->
            cramers_v(encoded_df[col1], encoded_df[col2])]

\* a table with a numeric and a categorical column, no cell null
MixedTable(xv, sv) ==
    [index |-> RangeIndex(Len(xv)), columns |-> <<"x", "size">>,
     data |-> [c \in {"x", "size"} |-> IF c = "x" THEN xv ELSE sv]]

\* a table with two categorical columns, no cell null
CategoricalTable(sv, fv) ==
    [index |-> RangeIndex(Len(sv)), columns |-> <<"size", "flag">>,
     data |-> [c \in {"size", "flag"} |-> IF c = "size" THEN sv ELSE fv]]

CramersV ==
    \E features \in {<<"size">>, <<"flag">>, <<"size", "flag">>,
                     <<"flag", "size">>} :
        /\ pre' = df
        /\ ret' = NoTable
        /\ alias' = FALSE
        /\ call' = [op |-> "CramersVStrategy", features |-> features]
        /\ raised' = ""
        /\ stdout' = <<CramersVStrategy_analyze(df, features)>>
        /\ UNCHANGED <<df, files, analyzerVars>>

InitCramers ==
    /\ \E n \in 1..MaxRows :
        \E sv \in [1..n -> Cells(FeatureVals("size")) \ {NaN}],
           fv \in [1..n -> Cells(FeatureVals("flag")) \ {NaN}] :
            df = CategoricalTable(sv, fv)
    /\ pre = NoTable
    /\ ret = NoTable
    /\ alias = FALSE
    /\ call = NoCall
    /\ raised = ""
    /\ stdout = <<>>
    /\ NoFiles
    /\ NoAnalyzer

NextCramers == CramersV

SpecCramers == InitCramers /\ [][NextCramers]_vars

\* C8: every diagonal entry of the matrix CramersVStrategy.analyze computes
\* is 1, the matrix is symmetric and every entry lies in [0, 1], for
\* features of any number of categories.
C8_CramersVMatrix ==
    call.op = "CramersVStrategy" =>
        LET results == stdout[1]
        IN  \A a, b \in Range(call.features) :
                /\ results[a, a] = <<FInt(1)>>
                /\ results[a, b] = results[b, a]
                /\ notna(results[a, b])
                /\ FLeq(FInt(0), results[a, b][1])
                /\ FLeq(results[a, b][1], FInt(1))

(***************************************************************************)
(* datadownloader.py: KaggleDataDownloader and CSVDataIngestor             *)
(*                                                                         *)
(* A file name is the sequence of its characters.  There is one directory, *)
(* the download_path of the downloader and the directory_path of the       *)
(* ingestor; files is its listing.                                         *)
(***************************************************************************)
MaxFiles == 3

FileNames ==
    { <<"a", ".", "c", "s", "v">>,
      <<"b", ".", "c", "s", "v">>,
      <<"c", ".", "C", "S", "V">>,
      <<"d", ".", "c", "s", "v", ".", "g", "z">>,
      <<"c", "s", "v">> }

\* str.endswith
endswith(f, suffix) ==
    /\ Len(f) >= Len(suffix)
    /\ SubSeq(f, Len(f) - Len(suffix) + 1, Len(f)) = suffix

CsvSuffix == <<".", "c", "s", "v">>

\* a directory listing: file names, no name twice, in any order
IsListing(l) == \A i, j \in 1..Len(l) : i # j => l[i] # l[j]

\* mutant: the last CSV file of the listing is read
CSVDataIngestor_ingest_last(listing) ==
    LET csv_files == SelectSeq(listing, LAMBDA f : endswith(f, CsvSuffix))
    IN  IF Len(csv_files) = 0
        THEN [raised |-> "FileNotFoundError", stdout |-> <<>>,
              parsed |-> <<>>]
        ELSE [raised |-> "",
              stdout |-> IF Len(csv_files) > 1
                         THEN <<"Multiple CSV files found. Using the first one.">>
                         ELSE <<>>,
              parsed |-> <<csv_files[Len(csv_files)]>>]

\* ingest on a directory with this listing: the exception raised, the
\* lines printed, the files handed to pd.read_csv
CSVDataIngestor_ingest(listing) ==
    LET csv_files == SelectSeq(listing, LAMBDA f : endswith(f, CsvSuffix))
    IN  IF Len(csv_files) = 0
        THEN [raised |-> "FileNotFoundError", stdout |-> <<>>,
              parsed |-> <<>>]
        ELSE [raised |-> "",
              stdout |-> IF Len(csv_files) > 1
                         THEN <<"Multiple CSV files found. Using the first one.">>
                         ELSE <<>>,
              parsed |-> <<csv_files[1]>>]

\* the directory the data set is downloaded to and ingested from
DownloadPath == "dataset"

\* what dataset_download_files can raise ("" when it returns): the API
\* call needs the network
ApiErrors == {"", "ConnectionError"}

\* download: the exception raised, the line printed and the value returned;
\* api_raised is what the call of the Kaggle API raises, and an exception
\* of it leaves download before the line is printed
KaggleDataDownloader_download(dataset_name, download_path, api_raised) ==
    IF api_raised # ""
    THEN [raised |-> api_raised, stdout |-> <<>>, return |-> None]
    ELSE [raised |-> "",
          stdout |-> <<"Dataset downloaded and extracted to: "
                           \o download_path>>,
          return |-> download_path]

\* the files of a data set are written into the directory, over files of
\* the same name; os.listdir gives the names then in the directory in any
\* order.  When the API raises, no file is written.
Download ==
    \E dataset \in (SUBSET FileNames) \ {{}}, api_raised \in ApiErrors :
        LET names == IF api_raised = "" THEN Range(files) \cup dataset
                     ELSE Range(files)
            r == KaggleDataDownloader_download(dataset, DownloadPath,
                                               api_raised)
        IN  /\ Cardinality(names) <= MaxFiles
            /\ IF api_raised = ""
               THEN \E l \in [1..Cardinality(names) -> names] :
                        IsListing(l) /\ files' = l
               ELSE files' = files
            /\ call' = [op |-> "download", dataset |-> dataset,
                        return |-> r.return]
            /\ raised' = r.raised
            /\ stdout' = r.stdout
            /\ UNCHANGED <<tableVars, analyzerVars>>

Ingest ==
    LET r == CSVDataIngestor_ingest(files)
    IN  /\ call' = [op |-> "ingest", parsed |-> r.parsed]
        /\ raised' = r.raised
        /\ stdout' = r.stdout
        /\ UNCHANGED <<tableVars, files, analyzerVars>>

InitIngest ==
    /\ \E n \in 0..MaxFiles :
        \E l \in [1..n -> FileNames] : IsListing(l) /\ files = l
    /\ NoTables
    /\ call = NoCall
    /\ raised = ""
    /\ stdout = <<>>
    /\ NoAnalyzer

NextIngest == Download \/ Ingest

SpecIngest == InitIngest /\ [][NextIngest]_vars

\* the positions of the listing whose name ends in ".csv"
CsvPositions(listing) ==
    {i \in 1..Len(listing) :
        /\ Len(listing[i]) >= 4
        /\ \A k \in 1..4 :
               listing[i][Len(listing[i]) - 4 + k] = CsvSuffix[k]}

\* C9: CSVDataIngestor.ingest raises the not-found error and parses nothing
\* when no name of the listing ends in ".csv"; prints the multiple-files
\* warning and parses exactly the first such file of the listing when there
\* are two or more; parses the file and prints nothing when there is one.
C9_IngestFirstCsv ==
    call.op = "ingest" =>
        LET csv == CsvPositions(files)
            first == CHOOSE i \in csv : \A j \in csv : i <= j
        IN  /\ csv = {} =>
                raised = "FileNotFoundError" /\ call.parsed = <<>>
            /\ Cardinality(csv) >= 2 =>
                /\ raised = ""
                /\ stdout = <<"Multiple CSV files found. Using the first one.">>
                /\ call.parsed = <<files[first]>>
            /\ Cardinality(csv) = 1 =>
                /\ raised = ""
                /\ stdout = <<>>
                /\ call.parsed = <<files[first]>>

\* C9 witness: of a listing with two CSV files, the second listed first by
\* name, after a file that is no CSV file, the first listed was parsed and
\* the warning printed.
C9_Witness ==
    /\ call.op = "ingest"
    /\ files = << <<"c", ".", "C", "S", "V">>,
                  <<"b", ".", "c", "s", "v">>,
                  <<"a", ".", "c", "s", "v">> >>
    /\ call.parsed = << <<"b", ".", "c", "s", "v">> >>
    /\ Len(stdout) = 1

(***************************************************************************)
(* multiveriate_analysis.py: the analysis strategies and                   *)
(* MultivariateAnalyzer.                                                   *)
(*                                                                         *)
(* The value of a parameter of analyze is a cell, <<>> for None.  A        *)
(* p-value is not computed: it is the upper tail of the distribution the   *)
(* line names, at the statistic of the line.  DataFrame.corr is that of    *)
(* pandas 2 (numeric_only=False: a column of strings raises), f_oneway     *)
(* that of scipy 1.6 or later.                                             *)
(***************************************************************************)
Strategies == {"CorrelationHeatmapStrategy", "ChiSquaredStrategy",
               "CramersVStrategy", "ANOVAStrategy"}

\* the positional and the keyword arguments of a call of execute_analysis;
\* a keyword argument is the pair of its name and its value
CallArgs == {<<>>, <<"size", "x">>}

CallKwargs == {<<>>, << <<"features", <<"size">>>> >>,
               << <<"features", <<"x">>>> >>}

\* the parameters of analyze after self and df, the first `required` of
\* them without a default; the default of the others is None
Signature(s) ==
    CASE s = "CorrelationHeatmapStrategy" ->
             [names |-> <<"features">>, required |-> 0]
      [] s = "ChiSquaredStrategy" ->
             [names |-> <<"feature1", "feature2">>, required |-> 2]
      [] s = "CramersVStrategy" ->
             [names |-> <<"features">>, required |-> 1]
      [] s = "ANOVAStrategy" ->
             [names |-> <<"group_feature", "target_feature">>,
              required |-> 2]

\* Python's binding of the arguments of a call to the parameters: TypeError
\* on too many positional arguments, a keyword that names no parameter, a
\* parameter given twice, a parameter without default not given
BindArguments(sig, args, kwargs) ==
    LET names == sig.names
        keys == {kwargs[i][1] : i \in 1..Len(kwargs)}
        position(k) == CHOOSE i \in 1..Len(names) : names[i] = k
        value(k) == kwargs[CHOOSE i \in 1..Len(kwargs) : kwargs[i][1] = k][2]
    IN  IF \/ Len(args) > Len(names)
           \/ \E k \in keys : k \notin Range(names)
           \/ \E k \in keys : position(k) <= Len(args)
           \/ \E i \in 1..sig.required :
                  i > Len(args) /\ names[i] \notin keys
        THEN [raised |-> "TypeError", bound |-> <<>>]
        ELSE [raised |-> "",
              bound |-> [i \in 1..Len(names) |->
                            IF i <= Len(args) THEN <<args[i]>>
                            ELSE IF names[i] \in keys
                                 THEN <<value(names[i])>>
                                 ELSE <<>>]]

\* CorrelationHeatmapStrategy.analyze: df.corr() raises on a column of
\* strings; the heatmap is shown, nothing is printed
CorrelationHeatmapStrategy_analyze(t, features) ==
    LET selected == IF features # <<>> /\ features[1] # <<>>
                    THEN features[1] ELSE t.columns
    IN  [raised |-> IF \E c \in Range(selected) : is_object_dtype(c)
                    THEN "ValueError" ELSE "",
         stdout |-> <<>>]

\* ChiSquaredStrategy.analyze on two columns without a null cell
ChiSquaredStrategy_analyze(t, feature1, feature2) ==
    LET cross_tab == Crosstab(t.data[feature1], t.data[feature2])
        r == chi2_contingency(t.data[feature1], t.data[feature2])
    IN  [raised |-> "",
         stdout |-> <<[text |-> "Chi-squared Test Result:"],
                      [text |-> "Chi-squared: , p-value: , dof: ",
                       chi2 |-> r.chi2, dof |-> r.dof],
                      [text |-> "Expected frequencies:\n",
                       expected |-> r.expected],
                      [text |-> "\nCross Tabulation:\n",
                       cross_tab |-> cross_tab]>>]

\* Series.unique(): the distinct values in the order of their first
\* appearance
unique(col) ==
    LET firsts == {i \in 1..Len(col) : \A j \in 1..(i - 1) : col[j] # col[i]}
    IN  [n \in 1..Cardinality(firsts) |->
            col[CHOOSE i \in firsts :
                    Cardinality({j \in firsts : j < i}) = n - 1]]

\* df[target_feature][df[group_feature] == group].values: the numbers of
\* the target column in the rows of the group
GroupValues(t, group_feature, target_feature, group) ==
    LET rows == {i \in 1..NRows(t) : t.data[group_feature][i] = group}
    IN  [m \in 1..Cardinality(rows) |->
            t.data[target_feature][
                CHOOSE i \in rows :
                    Cardinality({j \in rows : j < i}) = m - 1][1]]

\* scipy.stats.f_oneway(*groups) on groups of numbers, none empty:
\* TypeError on fewer than two groups; F is NaN when every group has one
\* number or all numbers are equal, infinite (1/0) when every group is
\* constant and two groups differ
f_oneway(groups) ==
    LET k == Len(groups)
        cells == UNION {{<<g, i>> : i \in 1..Len(groups[g])} : g \in 1..k}
        N == Cardinality(cells)
        mean == FDiv(FSum([p \in cells |-> FInt(groups[p[1]][p[2]])], cells),
                     FInt(N))
        group_mean == [g \in 1..k |->
                          FDiv(FSum([i \in 1..Len(groups[g]) |->
                                        FInt(groups[g][i])],
                                    1..Len(groups[g])),
                               FInt(Len(groups[g])))]
        square(a) == FMul(a, a)
        ssbn == FSum([g \in 1..k |->
                         FMul(FInt(Len(groups[g])),
                              square(FSub(group_mean[g], mean)))], 1..k)
        sswn == FSum([p \in cells |->
                         square(FSub(FInt(groups[p[1]][p[2]]),
                                     group_mean[p[1]]))], cells)
        all_const == \A g \in 1..k : \A i \in 1..Len(groups[g]) :
                         groups[g][i] = groups[g][1]
        all_same_const == \A p \in cells :
                              groups[p[1]][p[2]] = groups[1][1]
    IN  IF k < 2 THEN [raised |-> "TypeError"]
        ELSE [raised |-> "",
              dfn |-> k - 1,
              dfd |-> N - k,
              f_stat |-> IF \A g \in 1..k : Len(groups[g]) = 1 THEN NaN
                         ELSE IF all_same_const THEN NaN
                         ELSE IF all_const THEN <<[n |-> 1, d |-> 0]>>
                         ELSE <<FDiv(FDiv(ssbn, FInt(k - 1)),
                                     FDiv(sswn, FInt(N - k)))>>]

\* ANOVAStrategy.analyze on a group column and a target column of numbers,
\* neither with a null cell
ANOVAStrategy_analyze(t, group_feature, target_feature) ==
    LET levels == unique(t.data[group_feature])
        groups == [g \in 1..Len(levels) |->
                      GroupValues(t, group_feature, target_feature,
                                  levels[g])]
        r == f_oneway(groups)
    IN  IF r.raised # "" THEN [raised |-> r.raised, stdout |-> <<>>]
        ELSE [raised |-> "",
              stdout |-> <<[text |-> "ANOVA Result: F-statistic = , p-value = ",
                            f_stat |-> r.f_stat, dfn |-> r.dfn,
                            dfd |-> r.dfd]>>]

\* strategy.analyze(df, *args, **kwargs): the arguments are bound to the
\* parameters of the strategy's analyze, then its body runs
AnalysisStrategy_analyze(s, t, args, kwargs) ==
    LET b == BindArguments(Signature(s), args, kwargs)
    IN  IF b.raised # "" THEN [raised |-> b.raised, stdout |-> <<>>]
        ELSE CASE s = "CorrelationHeatmapStrategy" ->
                      CorrelationHeatmapStrategy_analyze(t, b.bound[1])
               [] s = "ChiSquaredStrategy" ->
                      ChiSquaredStrategy_analyze(t, b.bound[1][1],
                                                 b.bound[2][1])
               [] s = "CramersVStrategy" ->
                      [raised |-> "",
                       stdout |-> <<CramersVStrategy_analyze(
                                        t, b.bound[1][1])>>]
               [] s = "ANOVAStrategy" ->
                      ANOVAStrategy_analyze(t, b.bound[1][1], b.bound[2][1])

\* the message of the error execute_analysis raises itself
StrategyNotSet ==
    "Strategy not set. Please set a strategy before executing analysis."

\* __init__(strategy=None): the value of self.strategy
MultivariateAnalyzer_init(s) == s

\* mutant: None does not replace a strategy that is set
MultivariateAnalyzer_set_strategy_unless_none(current, s) ==
    IF s = None THEN current ELSE s

\* set_strategy: the value of self.strategy after the call
MultivariateAnalyzer_set_strategy(current, s) == s

\* execute_analysis: the exception raised, by the method itself (with its
\* message) or by the call of the strategy's analyze; the calls made of a
\* strategy's analyze; the lines the strategy printed
MultivariateAnalyzer_execute_analysis(current, t, args, kwargs) ==
    IF current = None
    THEN [raised |-> "ValueError", message |-> StrategyNotSet,
          invoked |-> <<>>, stdout |-> <<>>]
    ELSE LET r == AnalysisStrategy_analyze(current, t, args, kwargs)
         IN  [raised |-> r.raised, message |-> "",
              invoked |-> <<[strategy |-> current, method |-> "analyze",
                             df |-> t, args |-> args, kwargs |-> kwargs]>>,
              stdout |-> r.stdout]

SetStrategy ==
    \E s \in Strategies \cup {None} :
        /\ strategy' = MultivariateAnalyzer_set_strategy(strategy, s)
        /\ lastSet' = s
        /\ invoked' = <<>>
        /\ call' = [op |-> "set_strategy", strategy |-> s]
        /\ raised' = ""
        /\ stdout' = <<>>
        /\ UNCHANGED <<tableVars, files, strategies>>

ExecuteAnalysis ==
    \E args \in CallArgs, kwargs \in CallKwargs :
        LET r == MultivariateAnalyzer_execute_analysis(strategy, df, args,
                                                       kwargs)
        IN  /\ invoked' = r.invoked
            /\ raised' = r.raised
            /\ stdout' = r.stdout
            /\ call' = [op |-> "execute_analysis", args |-> args,
                        kwargs |-> kwargs, message |-> r.message]
            /\ UNCHANGED <<tableVars, files, strategy, strategies, lastSet>>

InitAnalyzer ==
    /\ \E n \in 1..MaxRows :
        \E xv \in [1..n -> Cells({0, 1}) \ {NaN}],
           sv \in [1..n -> Cells(FeatureVals("size")) \ {NaN}] :
            df = MixedTable(xv, sv)
    /\ pre = NoTable
    /\ ret = NoTable
    /\ alias = FALSE
    /\ \E s \in Strategies \cup {None} :
        /\ strategy = MultivariateAnalyzer_init(s)
        /\ lastSet = s
    /\ strategies = <<>>
    /\ invoked = <<>>
    /\ call = NoCall
    /\ raised = ""
    /\ stdout = <<>>
    /\ NoFiles

NextAnalyzer == SetStrategy \/ ExecuteAnalysis

SpecAnalyzer == InitAnalyzer /\ [][NextAnalyzer]_vars

\* C10: execute_analysis raises the "strategy not set" error, calling no
\* strategy, exactly when the strategy last handed to the analyzer (by the
\* constructor or set_strategy) is None; otherwise it calls analyze of that
\* strategy exactly once, with the table and the arguments of the call.
C10_ExecuteDelegatesOrRaises ==
    call.op = "execute_analysis" =>
        /\ (raised = "ValueError" /\ call.message = StrategyNotSet)
               <=> lastSet = None
        /\ IF lastSet = None THEN invoked = <<>>
           ELSE /\ Len(invoked) = 1
                /\ invoked[1].strategy = lastSet
                /\ invoked[1].method = "analyze"
                /\ invoked[1].df = df
                /\ invoked[1].args = call.args
                /\ invoked[1].kwargs = call.kwargs

\* C10 witness: after set_strategy replaced the analyzer's strategy,
\* execute_analysis called analyze of the later strategy, once, with the
\* keyword arguments of the call, and the strategy printed its matrix.
C10_Witness ==
    /\ call.op = "execute_analysis"
    /\ lastSet = "CramersVStrategy"
    /\ strategy = "CramersVStrategy"
    /\ raised = ""
    /\ Len(invoked) = 1
    /\ invoked[1].strategy = "CramersVStrategy"
    /\ invoked[1].kwargs = << <<"features", <<"size">>>> >>
    /\ Len(stdout) = 1

(***************************************************************************)
(* analysis/analyze_src/pre_inspection_analysis.py: the inspection         *)
(* strategies and DataInspector.  A printed line is a record: [text |-> s] *)
(* for a literal, or the report of a pandas call by what it reports.       *)
(***************************************************************************)
MaxStrategies == 2
MaxColumns == 2

\* df.select_dtypes: the columns of the dtypes, in the table's order
RECURSIVE SelectColumns(_, _, _)
SelectColumns(t, columns, dtypes) ==
    IF columns = <<>> THEN <<>>
    ELSE (IF dtype(t, Head(columns)) \in dtypes THEN <<Head(columns)>>
          ELSE <<>>) \o SelectColumns(t, Tail(columns), dtypes)

\* Series.count(): the cells that are not null
Count(col) == Cardinality({i \in 1..Len(col) : notna(col[i])})

\* Series.value_counts(): each distinct non-null value with the number of
\* its cells (a mapping; the order of the report's rows is left out)
value_counts(col) ==
    [v \in Values(col) |->
        Cardinality({i \in 1..Len(col) : col[i] = <<v>>})]

InfoInspection_inspect(t) ==
    [raised |-> "",
     stdout |-> <<[text |-> "DataFrame Info:"],
                  [info |-> [c \in Range(t.columns) |->
                                [non_null |-> Count(t.data[c]),
                                 dtype |-> dtype(t, c)]]],
                  [text |-> "None"],
                  [text |-> "\n"]>>]

\* df.describe(): the numeric columns, or every column when none is numeric
DescribeInspection_inspect(t) ==
    LET numeric == SelectColumns(t, t.columns, {"int64", "float64"})
        described == IF numeric = <<>> THEN t.columns ELSE numeric
    IN  [raised |-> "",
         stdout |-> <<[text |-> "Numeric Columns Description:"],
                      [describe |-> [c \in Range(described) |->
                                        Count(t.data[c])]],
                      [text |-> "\n"]>>]

\* df.describe(include=['object']) of a table without an object column
\* raises ValueError (no objects to concatenate), after the header line
DescribeCategoricalInspection_inspect(t) ==
    LET described == SelectColumns(t, t.columns, {"object"})
    IN  IF described = <<>>
        THEN [raised |-> "ValueError",
              stdout |-> <<[text |-> "Categorical Columns Description:"]>>]
        ELSE [raised |-> "",
              stdout |-> <<[text |-> "Categorical Columns Description:"],
                           [describe |-> [c \in Range(described) |->
                                             Count(t.data[c])]],
                           [text |-> "\n"]>>]

MissingValuesInspection_inspect(t) ==
    LET missing_values ==
            [c \in Range(t.columns) |-> NRows(t) - Count(t.data[c])]
    IN  [raised |-> "",
         stdout |-> <<[text |-> "Missing Values Count:"],
                      [missing |-> [c \in {k \in Range(t.columns) :
                                              missing_values[k] > 0} |->
                                       missing_values[c]]],
                      [text |-> "\n"]>>]

\* mutant: df[column] without the guard, an absent column raises KeyError
\* and ends the loop
RECURSIVE ValueCountsInspection_inspect_unguarded(_, _)
ValueCountsInspection_inspect_unguarded(t, columns) ==
    IF columns = <<>> THEN [raised |-> "", stdout |-> <<>>]
    ELSE LET column == Head(columns)
         IN  IF column \in Range(t.columns)
             THEN LET rest == ValueCountsInspection_inspect_unguarded(
                                  t, Tail(columns))
                  IN  [raised |-> rest.raised,
                       stdout |->
                           <<[text |-> "Value count for " \o column],
                             [value_counts |-> value_counts(t.data[column]),
                              name |-> column],
                             [text |-> "\n"]>> \o rest.stdout]
             ELSE [raised |-> "KeyError", stdout |-> <<>>]

\* ValueCountsInspection.inspect: the loop over self.columns
RECURSIVE ValueCountsInspection_inspect(_, _)
ValueCountsInspection_inspect(t, columns) ==
    IF columns = <<>> THEN [raised |-> "", stdout |-> <<>>]
    ELSE LET column == Head(columns)
             rest == ValueCountsInspection_inspect(t, Tail(columns))
         IN  [raised |-> rest.raised,
              stdout |->
                  (IF column \in Range(t.columns)
                   THEN <<[text |-> "Value count for " \o column],
                          [value_counts |-> value_counts(t.data[column]),
                           name |-> column],
                          [text |-> "\n"]>>
                   ELSE <<[text |-> "Warning: Column " \o column
                                      \o " not found in DataFrame. \n"]>>)
                  \o rest.stdout]

\* the column lists a ValueCountsInspection is configured with
RECURSIVE ColumnLists(_, _)
ColumnLists(names, n) ==
    IF n = 0 THEN {<<>>}
    ELSE LET shorter == ColumnLists(names, n - 1)
         IN  shorter \cup {Append(l, c) : l \in shorter, c \in names}

ValueCounts ==
    \E columns \in ColumnLists({"size", "flag", "missing"}, MaxColumns) :
        LET r == ValueCountsInspection_inspect(df, columns)
        IN  /\ call' = [op |-> "ValueCountsInspection", columns |-> columns]
            /\ raised' = r.raised
            /\ stdout' = r.stdout
            /\ UNCHANGED <<tableVars, files, analyzerVars>>

InitValueCounts ==
    /\ \E n \in 1..MaxRows :
        \E sv \in [1..n -> Cells(FeatureVals("size")) \ {NaN}],
           fv \in [1..n -> Cells(FeatureVals("flag")) \ {NaN}] :
            df = CategoricalTable(sv, fv)
    /\ pre = NoTable
    /\ ret = NoTable
    /\ alias = FALSE
    /\ call = NoCall
    /\ raised = ""
    /\ stdout = <<>>
    /\ NoFiles
    /\ NoAnalyzer

NextValueCounts == ValueCounts

SpecValueCounts == InitValueCounts /\ [][NextValueCounts]_vars

\* the lines printed for the columns before position k of the list: three
\* for a column of the table, one for a column the table does not have
RECURSIVE LinesBefore(_, _, _)
LinesBefore(t, columns, k) ==
    IF k <= 1 THEN 0
    ELSE LinesBefore(t, columns, k - 1)
         + (IF columns[k - 1] \in Range(t.columns) THEN 3 ELSE 1)

IsValueCounts(report, col) ==
    /\ DOMAIN report = {col[i][1] : i \in {j \in 1..Len(col) : col[j] # NaN}}
    /\ \A v \in DOMAIN report :
        report[v] = Cardinality({i \in 1..Len(col) : col[i] = <<v>>})

\* C12: ValueCountsInspection.inspect never raises and prints, for the
\* columns of its list in list order, the value-count report (header, the
\* counts of the column's values, blank line) of each column the table has
\* and one warning line for each column the table does not have; the
\* columns after an absent one are processed all the same.
C12_ValueCountsWarnsAndContinues ==
    call.op = "ValueCountsInspection" =>
        /\ raised = ""
        /\ Len(stdout) = LinesBefore(df, call.columns, Len(call.columns) + 1)
        /\ \A k \in 1..Len(call.columns) :
            LET column == call.columns[k]
                o == LinesBefore(df, call.columns, k)
            IN  IF column \in Range(df.columns)
                THEN /\ stdout[o + 1] = [text |-> "Value count for " \o column]
                     /\ DOMAIN stdout[o + 2] = {"value_counts", "name"}
                     /\ stdout[o + 2].name = column
                     /\ IsValueCounts(stdout[o + 2].value_counts,
                                      df.data[column])
                     /\ stdout[o + 3] = [text |-> "\n"]
                ELSE stdout[o + 1] =
                         [text |-> "Warning: Column " \o column
                                     \o " not found in DataFrame. \n"]

\* an absent column first, then a column of the table: a warning line
\* followed by the report of the second column
C12_Witness ==
    /\ call.op = "ValueCountsInspection"
    /\ Len(call.columns) = 2
    /\ call.columns[1] \notin Range(df.columns)
    /\ call.columns[2] \in Range(df.columns)
    /\ raised = ""
    /\ Len(stdout) = 4
    /\ "value_counts" \in DOMAIN stdout[3]
    /\ Cardinality(DOMAIN stdout[3].value_counts) >= 2

(***************************************************************************)
(* DataInspector: the ordered list of inspection strategies and the one    *)
(* table of the inspector.                                                 *)
(***************************************************************************)
\* the strategy objects handed to add_strategy
InspectionStrategies ==
    {[op |-> "InfoInspection"], [op |-> "DescribeInspection"],
     [op |-> "DescribeCategoricalInspection"],
     [op |-> "MissingValuesInspection"]}
    \cup {[op |-> "ValueCountsInspection", columns |-> columns] :
            columns \in {<<"size">>, <<"x", "missing">>}}

\* strategy.inspect(df), by the class of the strategy object
DataInspectionStrategy_inspect(s, t) ==
    CASE s.op = "InfoInspection" -> InfoInspection_inspect(t)
      [] s.op = "DescribeInspection" -> DescribeInspection_inspect(t)
      [] s.op = "DescribeCategoricalInspection" ->
            DescribeCategoricalInspection_inspect(t)
      [] s.op = "MissingValuesInspection" ->
            MissingValuesInspection_inspect(t)
      [] s.op = "ValueCountsInspection" ->
            ValueCountsInspection_inspect(t, s.columns)

DataInspector_init == <<>>

\* mutant: the strategy put in front of the list
DataInspector_add_strategy_front(current, s) == <<s>> \o current

\* add_strategy: self.strategies after the call
DataInspector_add_strategy(current, s) == Append(current, s)

\* inspect: the loop over self.strategies; an exception of a strategy
\* leaves the loop, what was printed before it stays printed
RECURSIVE DataInspector_inspect(_, _)
DataInspector_inspect(current, t) ==
    IF current = <<>>
    THEN [raised |-> "", invoked |-> <<>>, stdout |-> <<>>]
    ELSE LET s == Head(current)
             made == [strategy |-> s, method |-> "inspect", df |-> t]
             r == DataInspectionStrategy_inspect(s, t)
         IN  IF r.raised # ""
             THEN [raised |-> r.raised, invoked |-> <<made>>,
                   stdout |-> r.stdout]
             ELSE LET rest == DataInspector_inspect(Tail(current), t)
                  IN  [raised |-> rest.raised,
                       invoked |-> <<made>> \o rest.invoked,
                       stdout |-> r.stdout \o rest.stdout]

AddStrategy ==
    /\ Len(strategies) < MaxStrategies
    /\ \E s \in InspectionStrategies :
        /\ strategies' = DataInspector_add_strategy(strategies, s)
        /\ lastSet' = Append(lastSet, s)
        /\ invoked' = <<>>
        /\ call' = [op |-> "add_strategy", strategy |-> s]
        /\ raised' = ""
        /\ stdout' = <<>>
        /\ UNCHANGED <<tableVars, files, strategy>>

Inspect ==
    LET r == DataInspector_inspect(strategies, df)
    IN  /\ invoked' = r.invoked
        /\ raised' = r.raised
        /\ stdout' = r.stdout
        /\ call' = [op |-> "inspect"]
        /\ UNCHANGED <<tableVars, files, strategy, strategies, lastSet>>

\* a DataInspector just constructed, on a table of categorical columns or
\* on a table of numeric columns
InitInspector ==
    /\ \/ \E sv \in [1..1 -> Cells(FeatureVals("size")) \ {NaN}],
             fv \in [1..1 -> Cells(FeatureVals("flag")) \ {NaN}] :
            df = CategoricalTable(sv, fv)
       \/ \E xv \in [1..1 -> Cells(ScaleVals)],
             yv \in [1..1 -> Cells(OtherVals) \ {NaN}] :
            df = ScaleTable(xv, yv)
    /\ pre = NoTable
    /\ ret = NoTable
    /\ alias = FALSE
    /\ strategy = None
    /\ strategies = DataInspector_init
    /\ lastSet = <<>>
    /\ invoked = <<>>
    /\ call = NoCall
    /\ raised = ""
    /\ stdout = <<>>
    /\ NoFiles

NextInspector == AddStrategy \/ Inspect

SpecInspector == InitInspector /\ [][NextInspector]_vars

\* C11 as stated: each inspect calls every registered strategy once, in
\* registration order, on the inspector's table.
C11_InspectRunsEveryStrategy ==
    call.op = "inspect" =>
        /\ Len(invoked) = Len(lastSet)
        /\ \A i \in 1..Len(invoked) :
            invoked[i].strategy = lastSet[i] /\ invoked[i].df = df

\* C11: the list of the inspector is at all times the strategies handed to
\* add_strategy, in the order of the calls (inspect leaves it as it is);
\* each inspect calls them in that order, each on the inspector's table and
\* at most once, up to the first whose inspect raises: all of them when
\* none raises, and none after the one that raises, whose exception leaves
\* inspect.
C11_InspectRunsInOrderUntilRaise ==
    /\ call.op \in {"add_strategy", "inspect"} => strategies = lastSet
    /\ call.op = "inspect" =>
        /\ Len(invoked) <= Len(lastSet)
        /\ \A i \in 1..Len(invoked) :
            /\ invoked[i].strategy = lastSet[i]
            /\ invoked[i].method = "inspect"
            /\ invoked[i].df = df
            /\ i < Len(invoked) =>
                DataInspectionStrategy_inspect(lastSet[i], df).raised = ""
        /\ raised = "" => Len(invoked) = Len(lastSet)
        /\ raised # "" =>
            /\ Len(invoked) >= 1
            /\ DataInspectionStrategy_inspect(lastSet[Len(invoked)],
                                              df).raised = raised

\* two different strategies registered and an inspect that ran both, in
\* the order of registration
C11_Witness ==
    /\ call.op = "inspect"
    /\ Len(lastSet) = 2
    /\ lastSet[1] # lastSet[2]
    /\ raised = ""
    /\ Len(invoked) = 2
    /\ invoked[1].strategy = lastSet[1]
    /\ invoked[2].strategy = lastSet[2]

(***************************************************************************)
(* feature_engineering.py: LabelEncodingStrategy                           *)
(***************************************************************************)
\* the (column, value) pairs of the indicator columns of pd.get_dummies:
\* column by column, the values of the column sorted, NaN having none
RECURSIVE DummyPairs(_, _)
DummyPairs(t, columns) ==
    IF columns = <<>> THEN <<>>
    ELSE LET c == Head(columns)
             values == SelectSeq(Categories(t.data[c]), LAMBDA v : notna(v))
         IN  [j \in 1..Len(values) |-> <<c, values[j]>>]
             \o DummyPairs(t, Tail(columns))

\* pd.get_dummies(df), object_columns being the columns of df of dtype
\* object: the other columns, then <column>_<value> indicator columns in
\* their place; the index stays.  An indicator is 1 or 0 (True or False
\* from pandas 2 on, which Python holds equal to 1 and 0).
get_dummies(t, object_columns) ==
    LET pairs == DummyPairs(t, object_columns)
        names == [j \in 1..Len(pairs) |->
                     FeatureName(pairs[j][1], pairs[j][2])]
        dummies ==
            [index |-> t.index,
             columns |-> names,
             data |-> [c \in Range(names) |->
                          LET j == CHOOSE k \in 1..Len(pairs) : names[k] = c
                          IN  [i \in 1..NRows(t) |->
                                  IF t.data[pairs[j][1]][i] = pairs[j][2]
                                  THEN <<1>> ELSE <<0>>]]]
    IN  IF NRows(t) = 0 THEN DropColumns(t, Range(object_columns))
        ELSE ConcatColumns(DropColumns(t, Range(object_columns)), dummies)

\* the loop over self.features: df_transformed[feature] =
\* LabelEncoder().fit_transform(df[feature])
RECURSIVE LabelEncodeFeatures(_, _, _)
LabelEncodeFeatures(df_transformed, t, features) ==
    IF features = <<>> THEN df_transformed
    ELSE LET feature == Head(features)
             codes == LabelEncode(t.data[feature])
         IN  LabelEncodeFeatures(
                 AssignColumn(df_transformed, feature,
                              [i \in 1..Len(codes) |-> <<codes[i]>>]),
                 t, Tail(features))

\* apply_transformation(df, apply_dummies, drop_columns); drop_columns is
\* <<>> for None and for an empty list, which the code holds alike
LabelEncodingStrategy_apply_transformation(t, features, apply_dummies, drop_columns) ==
    IF \E f \in Range(features) : f \notin Range(t.columns)
    THEN [raised |-> "KeyError", alias |-> FALSE, df |-> t, ret |-> NoTable]
    ELSE IF \E c \in Range(drop_columns) : c \notin Range(t.columns)
    THEN [raised |-> "KeyError", alias |-> FALSE, df |-> t, ret |-> NoTable]
    ELSE LET encoded == LabelEncodeFeatures(t, t, features)
             dropped == IF drop_columns # <<>>
                        THEN DropColumns(encoded, Range(drop_columns))
                        ELSE encoded
             object_columns ==
                 SelectSeq(dropped.columns,
                           LAMBDA c : /\ is_object_dtype(c)
                                      /\ c \notin Range(features))
         IN  [raised |-> "", alias |-> FALSE, df |-> t,
              ret |-> IF apply_dummies
                      THEN get_dummies(dropped, object_columns)
                      ELSE dropped]

LabelEncoding ==
    \E features \in {<<"size">>, <<"flag">>, <<"size", "flag">>},
       apply_dummies \in BOOLEAN,
       drop_columns \in {<<>>, <<"id">>, <<"flag">>, <<"missing">>} :
        LET r == LabelEncodingStrategy_apply_transformation(
                     df, features, apply_dummies, drop_columns)
        IN  /\ pre' = df
            /\ df' = r.df
            /\ ret' = r.ret
            /\ alias' = r.alias
            /\ call' = [op |-> "LabelEncodingStrategy",
                        features |-> features,
                        apply_dummies |-> apply_dummies,
                        drop_columns |-> drop_columns]
            /\ raised' = r.raised
            /\ UNCHANGED <<stdout, files, analyzerVars>>

\* a table with the row labels a filter left it, no cell null
InitLabel ==
    /\ \E n \in 1..MaxRows :
        \E ix \in {FilteredIndex(n)},
           sv \in [1..n -> Cells(FeatureVals("size")) \ {NaN}],
           fv \in [1..n -> Cells(FeatureVals("flag")) \ {NaN}] :
            df = EncodeTable(ix, sv, fv)
    /\ pre = NoTable
    /\ ret = NoTable
    /\ alias = FALSE
    /\ call = NoCall
    /\ raised = ""
    /\ stdout = <<>>
    /\ NoFiles
    /\ NoAnalyzer

NextLabel == LabelEncoding

SpecLabel == InitLabel /\ [][NextLabel]_vars

\* the place of a category value in sorted order
SortRank(v) ==
    CHOOSE j \in 1..Len(SortedCategories) : SortedCategories[j] = v

\* C14: LabelEncodingStrategy.apply_transformation, when it returns: each
\* configured column (unless dropped) holds for every row the number of the
\* column's distinct values that sort before the row's value, that is the
\* codes 0..k-1 in sorted order; the drop_columns are absent; the numeric
\* columns not configured are as they were; the non-numeric columns not
\* configured and not dropped are replaced by one indicator column per
\* value when apply_dummies is true and are as they were when it is false.
C14_LabelCodesThenDropThenDummies ==
    (call.op = "LabelEncodingStrategy" /\ raised = "") =>
        LET features == Range(call.features)
            dropped == Range(call.drop_columns)
            kept == features \ dropped
            others == Range(pre.columns) \ (features \cup dropped)
            numeric == {c \in others : ~is_object_dtype(c)}
            nonNumeric == others \ numeric
            indicators == {<<c, v>> \in nonNumeric \X Range(SortedCategories) :
                              <<v>> \in Range(pre.data[c])}
        IN  /\ ret.index = pre.index
            /\ \A f \in kept :
                /\ f \in Range(ret.columns)
                /\ \A i \in 1..NRows(pre) :
                    ret.data[f][i] =
                        <<Cardinality({w \in Range(pre.data[f]) :
                              SortRank(w[1]) < SortRank(pre.data[f][i][1])})>>
            /\ \A c \in dropped :
                c \notin Range(ret.columns) /\ c \notin DOMAIN ret.data
            /\ \A c \in numeric :
                c \in Range(ret.columns) /\ ret.data[c] = pre.data[c]
            /\ IF call.apply_dummies
               THEN /\ Range(ret.columns) =
                           kept \cup numeric
                           \cup {p[1] \o "_" \o p[2] : p \in indicators}
                    /\ \A p \in indicators :
                        ret.data[p[1] \o "_" \o p[2]] =
                            [i \in 1..NRows(pre) |->
                                IF pre.data[p[1]][i] = <<p[2]>>
                                THEN <<1>> ELSE <<0>>]
               ELSE /\ Range(ret.columns) = kept \cup others
                    /\ \A c \in nonNumeric : ret.data[c] = pre.data[c]
            /\ Len(ret.columns) = Cardinality(Range(ret.columns))

\* three sizes met in the order Medium, Low, High get the codes 2, 1, 0;
\* the id column is dropped and the flag column, not configured, becomes
\* its two indicator columns
C14_Witness ==
    /\ call.op = "LabelEncodingStrategy"
    /\ raised = ""
    /\ call.features = <<"size">>
    /\ call.drop_columns = <<"id">>
    /\ call.apply_dummies
    /\ pre.data["size"] = <<<<"Medium">>, <<"Low">>, <<"High">>>>
    /\ ret.columns = <<"size", "flag_No", "flag_Yes">>
    /\ ret.data["size"] = <<<<2>>, <<1>>, <<0>>>>

(***************************************************************************)
(* feature_engineering.py: the scaler and the encoders a strategy object   *)
(* builds in __init__ and keeps, with the state a fit leaves in them.  An  *)
(* estimator just built is Unfitted; a fitted one holds its parameters per *)
(* feature.                                                                *)
(***************************************************************************)
Unfitted == [fitted |-> FALSE]

\* MinMaxScaler._reset: the fitted attributes deleted
MinMaxScaler_reset(state) == Unfitted

\* MinMaxScaler.partial_fit: data_min_ and data_max_ of the batch, merged
\* with those of the batches seen before when there were any
MinMaxScaler_partial_fit(state, t, features) ==
    [fitted |-> TRUE,
     data_min |-> [f \in Range(features) |->
                      LET m == SetMin(Values(t.data[f]))
                      IN  IF state.fitted
                          THEN SetMin({state.data_min[f], m}) ELSE m],
     data_max |-> [f \in Range(features) |->
                      LET m == SetMax(Values(t.data[f]))
                      IN  IF state.fitted
                          THEN SetMax({state.data_max[f], m}) ELSE m]]

\* mutant: fit without the reset, the batches seen before still count
MinMaxScaler_fit_without_reset(state, t, features) ==
    MinMaxScaler_partial_fit(state, t, features)

\* MinMaxScaler.fit: reset, then partial_fit
MinMaxScaler_fit(state, t, features) ==
    MinMaxScaler_partial_fit(MinMaxScaler_reset(state), t, features)

\* MinMaxScaler.transform of one column: X * scale_ + min_, in doubles
MinMaxScaler_transform(state, col, f, lo, hi) ==
    MinMaxTransform(state.data_min[f], state.data_max[f], col, lo, hi)

StandardScaler_reset(state) == Unfitted

\* StandardScaler.partial_fit: n_samples_seen_, mean_ and var_ (the
\* population variance) of the batch, merged with those of the batches
\* seen before by the incremental update of the mean and of the sum of
\* squared deviations
StandardScaler_partial_fit(state, t, features) ==
    LET Stats(f) ==
            LET col == t.data[f]
                n == Len(col)
                x == [i \in 1..n |-> FInt(col[i][1])]
                last_n == IF state.fitted THEN state.n[f] ELSE 0
                last_sum == IF state.fitted
                            THEN FMul(state.mean[f], FInt(last_n))
                            ELSE FInt(0)
                new_sum == FSum(x, 1..n)
                updated_n == last_n + n
                T == FDiv(new_sum, FInt(n))
                new_unnormalized ==
                    FSum([i \in 1..n |-> FMul(FSub(x[i], T), FSub(x[i], T))],
                         1..n)
                updated_unnormalized ==
                    IF last_n = 0 THEN new_unnormalized
                    ELSE LET last_over_new == Frac(last_n, n)
                             d == FSub(FDiv(last_sum, last_over_new), new_sum)
                         IN  FAdd(FAdd(FMul(state.var[f], FInt(last_n)),
                                       new_unnormalized),
                                  FMul(FDiv(last_over_new, FInt(updated_n)),
                                       FMul(d, d)))
            IN  [n |-> updated_n,
                 mean |-> FDiv(FAdd(last_sum, new_sum), FInt(updated_n)),
                 var |-> FDiv(updated_unnormalized, FInt(updated_n))]
    IN  [fitted |-> TRUE,
         n |-> [f \in Range(features) |-> Stats(f).n],
         mean |-> [f \in Range(features) |-> Stats(f).mean],
         var |-> [f \in Range(features) |-> Stats(f).var]]

\* StandardScaler.fit: reset, then partial_fit
StandardScaler_fit(state, t, features) ==
    StandardScaler_partial_fit(StandardScaler_reset(state), t, features)

\* StandardScaler.transform of one column: (X - mean_) / scale_, scale_
\* being the square root of var_, and 1 for a variance of 0.  The value
\* z is held exactly, as its sign and its square.
StandardScaler_transform(state, col, f) ==
    [i \in 1..Len(col) |->
        IF isna(col[i]) THEN NaN
        ELSE LET centred == FSub(FInt(col[i][1]), state.mean[f])
                 squared == FMul(centred, centred)
             IN  <<[sign |-> FSign(centred).n,
                    square |-> IF state.var[f].n = 0 THEN squared
                               ELSE FDiv(squared, state.var[f])]>>]

\* OneHotEncoder.fit: categories_ found anew in the table
OneHotEncoder_fit(state, t, features) ==
    [fitted |-> TRUE,
     categories |-> [f \in Range(features) |-> Categories(t.data[f])]]

\* the (feature, category) pairs of the columns transform gives: the
\* fitted categories of each feature but the first (drop="first")
RECURSIVE FittedPairs(_, _)
FittedPairs(state, features) ==
    IF features = <<>> THEN <<>>
    ELSE LET f == Head(features)
             kept == Tail(state.categories[f])
         IN  [j \in 1..Len(kept) |-> <<f, kept[j]>>]
             \o FittedPairs(state, Tail(features))

\* pd.DataFrame(encoder.transform(df[features]),
\*              columns=encoder.get_feature_names_out(features))
OneHotEncoder_transform(state, t, features) ==
    LET pairs == FittedPairs(state, features)
        names == [j \in 1..Len(pairs) |->
                     FeatureName(pairs[j][1], pairs[j][2])]
    IN  [index |-> RangeIndex(NRows(t)),
         columns |-> names,
         data |-> [c \in Range(names) |->
                      LET j == CHOOSE k \in 1..Len(pairs) : names[k] = c
                      IN  [i \in 1..NRows(t) |->
                              IF t.data[pairs[j][1]][i] = pairs[j][2]
                              THEN <<1>> ELSE <<0>>]]]

\* LabelEncoder.fit_transform: classes_ found anew in the column, and the
\* place of each value among them, from 0
LabelEncoder_fit_transform(state, col) ==
    LET classes == SelectSeq(SortedCategories, LAMBDA v : v \in Values(col))
    IN  [state |-> [fitted |-> TRUE, classes |-> classes],
         out |-> [i \in 1..Len(col) |->
                     <<(CHOOSE j \in 1..Len(classes) :
                            classes[j] = col[i][1]) - 1>>]]

(***************************************************************************)
(* feature_engineering.py: the strategy objects.  __init__ gives the       *)
(* object, with its estimators not yet fitted; a call of                   *)
(* apply_transformation gives the object after the call (self), the        *)
(* exception raised, the caller's table after the call and the table       *)
(* returned.                                                               *)
(***************************************************************************)
OutletAGECalcation_init(new_feature, old_feature) ==
    [op |-> "OutletAGECalcation", new_feature |-> new_feature,
     old_feature |-> old_feature]

\* the object keeps no state of a call
OutletAGECalcation_call(self, t) ==
    LET r == OutletAGECalcation_apply_transformation(t, self.new_feature,
                                                     self.old_feature)
    IN  [self |-> self, raised |-> r.raised, alias |-> r.alias,
         df |-> r.df, ret |-> r.ret]

StandardScaling_init(features) ==
    [op |-> "StandardScaling", features |-> features, scaler |-> Unfitted]

MinMaxScaling_init(features, feature_range) ==
    [op |-> "MinMaxScaling", features |-> features,
     feature_range |-> feature_range, scaler |-> Unfitted]

OneHotEncoding_init(features) ==
    [op |-> "OneHotEncoding", features |-> features, encoder |-> Unfitted]

LabelEncodingStrategy_init(features) ==
    [op |-> "LabelEncodingStrategy", features |-> features,
     label_encoders |-> [f \in Range(features) |-> Unfitted]]

\* mutant: no copy taken, the scaled columns written into df
StandardScaling_call_in_place(self, t) ==
    IF NRows(t) = 0
    THEN [self |-> [self EXCEPT !.scaler = StandardScaler_reset(@)],
          raised |-> "ValueError", alias |-> FALSE, df |-> t,
          ret |-> NoTable]
    ELSE LET scaler == StandardScaler_fit(self.scaler, t, self.features)
             out == [t EXCEPT !.data =
                        [c \in DOMAIN t.data |->
                            IF c \in Range(self.features)
                            THEN StandardScaler_transform(scaler,
                                                          t.data[c], c)
                            ELSE t.data[c]]]
         IN  [self |-> [self EXCEPT !.scaler = scaler],
              raised |-> "", alias |-> TRUE, df |-> out, ret |-> out]

\* fit_transform raises ValueError for a table without rows, the reset
\* done by then
StandardScaling_call(self, t) ==
    IF NRows(t) = 0
    THEN [self |-> [self EXCEPT !.scaler = StandardScaler_reset(@)],
          raised |-> "ValueError", alias |-> FALSE, df |-> t,
          ret |-> NoTable]
    ELSE LET scaler == StandardScaler_fit(self.scaler, t, self.features)
         IN  [self |-> [self EXCEPT !.scaler = scaler],
              raised |-> "", alias |-> FALSE, df |-> t,
              ret |-> [t EXCEPT !.data =
                          [c \in DOMAIN t.data |->
                              IF c \in Range(self.features)
                              THEN StandardScaler_transform(scaler,
                                                            t.data[c], c)
                              ELSE t.data[c]]]]

StandardScaling_apply_transformation(t, features) ==
    LET r == StandardScaling_call(StandardScaling_init(features), t)
    IN  [raised |-> r.raised, alias |-> r.alias, df |-> r.df, ret |-> r.ret]

\* fit_transform raises ValueError for a range with lo >= hi and for a
\* table without rows, the reset done by then
MinMaxScaling_call(self, t) ==
    LET lo == self.feature_range[1]
        hi == self.feature_range[2]
    IN  IF lo >= hi \/ NRows(t) = 0
        THEN [self |-> [self EXCEPT !.scaler = MinMaxScaler_reset(@)],
              raised |-> "ValueError", alias |-> FALSE, df |-> t,
              ret |-> NoTable]
        ELSE LET scaler == MinMaxScaler_fit(self.scaler, t, self.features)
             IN  [self |-> [self EXCEPT !.scaler = scaler],
                  raised |-> "", alias |-> FALSE, df |-> t,
                  ret |-> [t EXCEPT !.data =
                              [c \in DOMAIN t.data |->
                                  IF c \in Range(self.features)
                                  THEN MinMaxScaler_transform(
                                           scaler, t.data[c], c, lo, hi)
                                  ELSE t.data[c]]]]

\* fit_transform raises ValueError for a table without rows, before
\* anything is fitted
OneHotEncoding_call(self, t) ==
    IF NRows(t) = 0
    THEN [self |-> self, raised |-> "ValueError", alias |-> FALSE,
          df |-> t, ret |-> NoTable]
    ELSE LET encoder == OneHotEncoder_fit(self.encoder, t, self.features)
         IN  [self |-> [self EXCEPT !.encoder = encoder],
              raised |-> "", alias |-> FALSE, df |-> t,
              ret |-> ConcatColumns(
                          ResetIndex(DropColumns(t, Range(self.features))),
                          OneHotEncoder_transform(encoder, t,
                                                  self.features))]

\* the loop over self.features: each feature's encoder is fitted on the
\* feature's column of df and its codes written to df_transformed; df of a
\* feature the table has not raises KeyError and ends the loop
RECURSIVE LabelEncodeLoop(_, _, _, _)
LabelEncodeLoop(label_encoders, df_transformed, t, features) ==
    IF features = <<>>
    THEN [raised |-> "", label_encoders |-> label_encoders,
          df_transformed |-> df_transformed]
    ELSE LET feature == Head(features)
         IN  IF feature \notin Range(t.columns)
             THEN [raised |-> "KeyError", label_encoders |-> label_encoders,
                   df_transformed |-> df_transformed]
             ELSE LET r == LabelEncoder_fit_transform(
                               label_encoders[feature], t.data[feature])
                  IN  LabelEncodeLoop(
                          [label_encoders EXCEPT ![feature] = r.state],
                          AssignColumn(df_transformed, feature, r.out),
                          t, Tail(features))

LabelEncodingStrategy_call(self, t, apply_dummies, drop_columns) ==
    LET loop == LabelEncodeLoop(self.label_encoders, t, t, self.features)
        after == [self EXCEPT !.label_encoders = loop.label_encoders]
        encoded == loop.df_transformed
    IN  IF loop.raised # ""
           \/ \E c \in Range(drop_columns) : c \notin Range(encoded.columns)
        THEN [self |-> after, raised |-> "KeyError", alias |-> FALSE,
              df |-> t, ret |-> NoTable]
        ELSE LET dropped == IF drop_columns # <<>>
                            THEN DropColumns(encoded, Range(drop_columns))
                            ELSE encoded
                 object_columns ==
                     SelectSeq(dropped.columns,
                               LAMBDA c : /\ is_object_dtype(c)
                                          /\ c \notin Range(self.features))
             IN  [self |-> after, raised |-> "", alias |-> FALSE, df |-> t,
                  ret |-> IF apply_dummies
                          THEN get_dummies(dropped, object_columns)
                          ELSE dropped]

\* strategy.apply_transformation(df): the default arguments of
\* LabelEncodingStrategy are apply_dummies=True and drop_columns=None
FeatureEngineeringStrategy_call(self, t) ==
    CASE self.op = "OutletAGECalcation" -> OutletAGECalcation_call(self, t)
      [] self.op = "StandardScaling" -> StandardScaling_call(self, t)
      [] self.op = "MinMaxScaling" -> MinMaxScaling_call(self, t)
      [] self.op = "OneHotEncoding" -> OneHotEncoding_call(self, t)
      [] self.op = "LabelEncodingStrategy" ->
            LabelEncodingStrategy_call(self, t, TRUE, <<>>)

(***************************************************************************)
(* One strategy object applied to one table after another.                 *)
(***************************************************************************)
\* the rows of a table handed to the strategy object, at most
MaxBatch == 2

\* a table of one numeric column, no cell null
NumericColumnTable(xv) ==
    [index |-> RangeIndex(Len(xv)), columns |-> <<"x">>,
     data |-> [c \in {"x"} |-> xv]]

\* a table of one categorical column, no cell null
CategoricalColumnTable(sv) ==
    [index |-> RangeIndex(Len(sv)), columns |-> <<"size">>,
     data |-> [c \in {"size"} |-> sv]]

\* the strategy objects applied
ScalingStrategies ==
    {StandardScaling_init(<<"x">>), MinMaxScaling_init(<<"x">>, <<0, 1>>),
     MinMaxScaling_init(<<"x">>, <<-1, 1>>)}

EncodingStrategies ==
    {OneHotEncoding_init(<<"size">>), LabelEncodingStrategy_init(<<"size">>)}

\* the estimators of a strategy object, with what they are fitted to
Estimators(self) ==
    CASE self.op \in {"StandardScaling", "MinMaxScaling"} ->
            <<self.scaler>>
      [] self.op = "OneHotEncoding" -> <<self.encoder>>
      [] self.op = "LabelEncodingStrategy" ->
            [i \in 1..Len(self.features) |->
                self.label_encoders[self.features[i]]]
      [] OTHER -> <<>>

\* strategy.apply_transformation(t) of the one object, for the next table
\* t; the call records whether the object came to it fitted to something
\* other than what the call left it fitted to
ApplyTo(t) ==
    LET r == FeatureEngineeringStrategy_call(strategy, t)
    IN  /\ pre' = t
        /\ df' = r.df
        /\ ret' = r.ret
        /\ alias' = r.alias
        /\ strategy' = r.self
        /\ call' = [op |-> "apply_transformation",
                    refitted |-> /\ \A i \in 1..Len(Estimators(strategy)) :
                                        Estimators(strategy)[i].fitted
                                 /\ Estimators(strategy) # Estimators(r.self)]
        /\ raised' = r.raised
        /\ UNCHANGED <<stdout, files, strategies, lastSet, invoked>>

ApplyScaling ==
    /\ strategy.op \in {"StandardScaling", "MinMaxScaling"}
    /\ \E n \in 1..MaxBatch :
        \E xv \in [1..n -> Cells(ScaleVals) \ {NaN}] :
            ApplyTo(NumericColumnTable(xv))

ApplyEncoding ==
    /\ strategy.op \in {"OneHotEncoding", "LabelEncodingStrategy"}
    /\ \E n \in 1..MaxBatch :
        \E sv \in [1..n -> Cells(FeatureVals("size")) \ {NaN}] :
            ApplyTo(CategoricalColumnTable(sv))

\* a strategy object just constructed, applied to no table yet
InitRefit ==
    /\ NoTables
    /\ strategy \in ScalingStrategies \cup EncodingStrategies
    /\ strategies = <<>>
    /\ lastSet = None
    /\ invoked = <<>>
    /\ call = NoCall
    /\ raised = ""
    /\ stdout = <<>>
    /\ NoFiles

NextRefit == ApplyScaling \/ ApplyEncoding

SpecRefit == InitRefit /\ [][NextRefit]_vars

\* a strategy object of the same class and configuration, just constructed
Fresh(self) ==
    CASE self.op = "StandardScaling" -> StandardScaling_init(self.features)
      [] self.op = "MinMaxScaling" ->
            MinMaxScaling_init(self.features, self.feature_range)
      [] self.op = "OneHotEncoding" -> OneHotEncoding_init(self.features)
      [] self.op = "LabelEncodingStrategy" ->
            LabelEncodingStrategy_init(self.features)
      [] OTHER -> self

\* apply_transformation of a strategy object used for that one call only
OneCall(self, t) ==
    CASE self.op = "StandardScaling" ->
            StandardScaling_apply_transformation(t, self.features)
      [] self.op = "MinMaxScaling" ->
            MinMaxScaling_apply_transformation(t, self.features,
                                               self.feature_range)
      [] self.op = "OneHotEncoding" ->
            OneHotEncoding_apply_transformation(t, self.features)
      [] self.op = "LabelEncodingStrategy" ->
            LabelEncodingStrategy_apply_transformation(t, self.features,
                                                       TRUE, <<>>)

\* C15: whatever tables a StandardScaling, MinMaxScaling, OneHotEncoding or
\* LabelEncodingStrategy object was applied to before, what
\* apply_transformation returns (or raises) for a table is what a strategy
\* object of the same configuration, just constructed, returns (or raises)
\* for that table, and the object is left fitted as that one is: the
\* parameters are those of the table of the call alone.
C15_RefitFromCurrentTable ==
    call.op = "apply_transformation" =>
        LET fresh == FeatureEngineeringStrategy_call(Fresh(strategy), pre)
        IN  /\ ret = fresh.ret
            /\ raised = fresh.raised
            /\ strategy = fresh.self
            /\ ret = OneCall(strategy, pre).ret
            /\ raised = OneCall(strategy, pre).raised

\* a MinMaxScaling object that came fitted to another table scales the
\* column 1, 2 to 0, 1
C15_Witness ==
    /\ call.op = "apply_transformation"
    /\ call.refitted
    /\ strategy.op = "MinMaxScaling"
    /\ strategy.feature_range = <<0, 1>>
    /\ raised = ""
    /\ pre.data["x"] = <<<<1>>, <<2>>>>
    /\ ret.data["x"] = <<<<DoubleInt(0)>>, <<DoubleInt(1)>>>>

(***************************************************************************)
(* The contexts FeatureEngineer (feature_engineering.py) and               *)
(* DataTransformer (preprocess.py): one strategy held, set_strategy to     *)
(* replace it, one method to apply it to a table.                          *)
(***************************************************************************)
\* the strategy objects handed to a FeatureEngineer
FeatureStrategies ==
    {OutletAGECalcation_init("age", "x"), StandardScaling_init(<<"x">>),
     MinMaxScaling_init(<<"x">>, <<0, 1>>), OneHotEncoding_init(<<"size">>),
     LabelEncodingStrategy_init(<<"size">>)}

\* the strategy objects handed to a DataTransformer
TransformationStrategies ==
    {[op |-> "ImputeByGroupMaxStrategy", target_column |-> "target",
      group_column |-> "group"],
     [op |-> "DeleteRowsWithMissingValuesStrategy",
      target_column |-> "target"],
     [op |-> "DeleteRowsWithMissingValuesStrategy",
      target_column |-> "group"],
     [op |-> "StandardizeValuesStrategy", target_column |-> "group",
      replacements |-> [v \in {"A"} |-> "B"]]}
    \cup {[op |-> "ImputeWithDefaultValueStrategy",
           target_column |-> "target", default_value |-> v] : v \in NumVals}

IsFeatureEngineeringStrategy(s) ==
    s.op \in {"OutletAGECalcation", "StandardScaling", "MinMaxScaling",
              "OneHotEncoding", "LabelEncodingStrategy"}

\* strategy.transform(df), by the class of the strategy object; these
\* objects keep no state of a call
DataTransformationStrategy_transform(self, t) ==
    LET r == CASE self.op = "ImputeByGroupMaxStrategy" ->
                    ImputeByGroupMaxStrategy_transform(
                        t, self.target_column, self.group_column)
               [] self.op = "ImputeWithDefaultValueStrategy" ->
                    ImputeWithDefaultValueStrategy_transform(
                        t, self.target_column, self.default_value)
               [] self.op = "DeleteRowsWithMissingValuesStrategy" ->
                    DeleteRowsWithMissingValuesStrategy_transform(
                        t, self.target_column)
               [] self.op = "StandardizeValuesStrategy" ->
                    StandardizeValuesStrategy_transform(
                        t, self.target_column, self.replacements)
    IN  [self |-> self, raised |-> "", alias |-> r.alias, df |-> r.df,
         ret |-> r.ret]

FeatureEngineer_init(s) == s

\* mutant: the strategy of the constructor is kept
FeatureEngineer_set_strategy_ignored(current, s) == current

\* set_strategy: self._strategy after the call
FeatureEngineer_set_strategy(current, s) == s

\* apply_feature_engineering: the one call of the strategy's
\* apply_transformation, and what it gives
FeatureEngineer_apply_feature_engineering(current, t) ==
    [invoked |-> <<[strategy |-> current, method |-> "apply_transformation",
                    df |-> t]>>,
     result |-> FeatureEngineeringStrategy_call(current, t)]

DataTransformer_init(s) == s

DataTransformer_set_strategy(current, s) == s

\* apply_transformation: the one call of the strategy's transform, and
\* what it gives
DataTransformer_apply_transformation(current, t) ==
    [invoked |-> <<[strategy |-> current, method |-> "transform",
                    df |-> t]>>,
     result |-> DataTransformationStrategy_transform(current, t)]

\* the call before, as an apply records it
LastCall == IF call.op = "set_strategy" THEN call ELSE [op |-> call.op]

SetFeatureStrategy ==
    /\ IsFeatureEngineeringStrategy(strategy)
    /\ \E s \in FeatureStrategies :
        /\ strategy' = FeatureEngineer_set_strategy(strategy, s)
        /\ lastSet' = s
        /\ invoked' = <<>>
        /\ call' = [op |-> "set_strategy", context |-> "FeatureEngineer",
                    strategy |-> s, replaced |-> lastSet]
        /\ raised' = ""
        /\ UNCHANGED <<tableVars, stdout, files, strategies>>

ApplyFeatureEngineering ==
    /\ IsFeatureEngineeringStrategy(strategy)
    /\ LET r == FeatureEngineer_apply_feature_engineering(strategy, df)
       IN  /\ invoked' = r.invoked
           /\ strategy' = r.result.self
           /\ pre' = df
           /\ df' = r.result.df
           /\ ret' = r.result.ret
           /\ alias' = r.result.alias
           /\ raised' = r.result.raised
           /\ call' = [op |-> "apply_feature_engineering",
                       context |-> "FeatureEngineer", after |-> LastCall]
           /\ UNCHANGED <<stdout, files, strategies, lastSet>>

SetTransformationStrategy ==
    /\ strategy \in TransformationStrategies
    /\ \E s \in TransformationStrategies :
        /\ strategy' = DataTransformer_set_strategy(strategy, s)
        /\ lastSet' = s
        /\ invoked' = <<>>
        /\ call' = [op |-> "set_strategy", context |-> "DataTransformer",
                    strategy |-> s, replaced |-> lastSet]
        /\ raised' = ""
        /\ UNCHANGED <<tableVars, stdout, files, strategies>>

ApplyTransformation ==
    /\ strategy \in TransformationStrategies
    /\ LET r == DataTransformer_apply_transformation(strategy, df)
       IN  /\ invoked' = r.invoked
           /\ strategy' = r.result.self
           /\ pre' = df
           /\ df' = r.result.df
           /\ ret' = r.result.ret
           /\ alias' = r.result.alias
           /\ raised' = r.result.raised
           /\ call' = [op |-> "apply_transformation",
                       context |-> "DataTransformer", after |-> LastCall]
           /\ UNCHANGED <<stdout, files, strategies, lastSet>>

\* a FeatureEngineer or a DataTransformer just constructed with a strategy,
\* and the table of the caller
InitContext ==
    /\ \/ /\ \E xv \in [1..1 -> Cells(ScaleVals) \ {NaN}],
                sv \in [1..1 -> Cells(FeatureVals("size")) \ {NaN}] :
                df = MixedTable(xv, sv)
          /\ \E s \in FeatureStrategies :
                strategy = FeatureEngineer_init(s) /\ lastSet = s
       \/ /\ \E tv \in [1..1 -> Cells(NumVals)],
                gv \in [1..1 -> Cells(GroupVals)] : df = PreTable(tv, gv)
          /\ \E s \in TransformationStrategies :
                strategy = DataTransformer_init(s) /\ lastSet = s
    /\ pre = NoTable
    /\ ret = NoTable
    /\ alias = FALSE
    /\ strategies = <<>>
    /\ invoked = <<>>
    /\ call = NoCall
    /\ raised = ""
    /\ stdout = <<>>
    /\ NoFiles

NextContext ==
    \/ SetFeatureStrategy
    \/ ApplyFeatureEngineering
    \/ SetTransformationStrategy
    \/ ApplyTransformation

SpecContext == InitContext /\ [][NextContext]_vars

\* C13: a FeatureEngineer (a DataTransformer) holds one strategy, the one
\* last handed to it by the constructor or by set_strategy;
\* apply_feature_engineering (apply_transformation) makes one call, of
\* that strategy's apply_transformation (transform), on the table it was
\* given, and returns or raises what that call returns or raises.  No
\* strategy handed to it earlier is called.
C13_ContextAppliesLastSetStrategy ==
    /\ call.op # "none" => Fresh(strategy) = Fresh(lastSet)
    /\ call.op \in {"apply_feature_engineering", "apply_transformation"} =>
        /\ Len(invoked) = 1
        /\ Fresh(invoked[1].strategy) = Fresh(lastSet)
        /\ invoked[1].df = pre
        /\ invoked[1].method = IF call.context = "FeatureEngineer"
                               THEN "apply_transformation" ELSE "transform"
        /\ LET result == IF call.context = "FeatureEngineer"
                         THEN FeatureEngineeringStrategy_call(lastSet, pre)
                         ELSE DataTransformationStrategy_transform(lastSet,
                                                                   pre)
           IN  /\ ret = result.ret
               /\ raised = result.raised
               /\ df = result.df

\* a FeatureEngineer whose strategy set_strategy has just replaced by a
\* MinMaxScaling applies that one, which scales the one value of x to 0
C13_Witness ==
    /\ call.op = "apply_feature_engineering"
    /\ call.after.op = "set_strategy"
    /\ call.after.replaced.op # "MinMaxScaling"
    /\ lastSet.op = "MinMaxScaling"
    /\ Len(invoked) = 1
    /\ invoked[1].strategy = lastSet
    /\ raised = ""
    /\ ret.data["x"] = <<<<DoubleInt(0)>>>>

(***************************************************************************)
(* A strategy called on the caller's table: what becomes of that table,    *)
(* and whether the table returned is that table.                           *)
(***************************************************************************)
ImputationStrategies ==
    {s \in TransformationStrategies :
        s.op \in {"ImputeByGroupMaxStrategy",
                  "ImputeWithDefaultValueStrategy"}}

\* strategy.apply_transformation(df) of a feature-engineering strategy
ApplyStrategy ==
    /\ IsFeatureEngineeringStrategy(strategy)
    /\ LET r == FeatureEngineeringStrategy_call(strategy, df)
       IN  /\ pre' = df
           /\ df' = r.df
           /\ ret' = r.ret
           /\ alias' = r.alias
           /\ strategy' = r.self
           /\ raised' = r.raised
           /\ call' = [op |-> "apply_transformation"]
           /\ UNCHANGED <<stdout, files, strategies, lastSet, invoked>>

\* strategy.transform(df) of an imputation strategy
TransformStrategy ==
    /\ strategy \in ImputationStrategies
    /\ LET r == DataTransformationStrategy_transform(strategy, df)
       IN  /\ pre' = df
           /\ df' = r.df
           /\ ret' = r.ret
           /\ alias' = r.alias
           /\ strategy' = r.self
           /\ raised' = r.raised
           /\ call' = [op |-> "transform"]
           /\ UNCHANGED <<stdout, files, strategies, lastSet, invoked>>

\* a strategy object just constructed and the table of the caller
InitCopy ==
    /\ \/ /\ \E n \in 0..MaxRows :
                \E xv \in [1..n -> Cells(ScaleVals) \ {NaN}],
                   sv \in [1..n -> Cells(FeatureVals("size")) \ {NaN}] :
                    df = MixedTable(xv, sv)
          /\ strategy \in FeatureStrategies
       \/ /\ \E n \in 0..MaxRows :
                \E tv \in [1..n -> Cells(NumVals)],
                   gv \in [1..n -> Cells(GroupVals)] : df = PreTable(tv, gv)
          /\ strategy \in ImputationStrategies
    /\ pre = NoTable
    /\ ret = NoTable
    /\ alias = FALSE
    /\ strategies = <<>>
    /\ lastSet = None
    /\ invoked = <<>>
    /\ call = NoCall
    /\ raised = ""
    /\ stdout = <<>>
    /\ NoFiles

NextCopy == ApplyStrategy \/ TransformStrategy

SpecCopy == InitCopy /\ [][NextCopy]_vars

\* C16: after apply_transformation of an OutletAGECalcation,
\* StandardScaling, MinMaxScaling, OneHotEncoding or LabelEncodingStrategy
\* the caller's table has the index, the columns and the values it had
\* before the call, and the table returned is another object; after
\* transform of an ImputeByGroupMaxStrategy or ImputeWithDefaultValueStrategy
\* the table returned is the caller's table, whose target column now holds
\* the filled values (every cell that was not null as it was, every null
\* cell of ImputeWithDefaultValueStrategy the default).
C16_FeatureStrategiesCopyImputationWritesInPlace ==
    /\ call.op = "apply_transformation" =>
        /\ raised = "" => ~alias
        /\ df = pre
    /\ call.op = "transform" =>
        /\ alias
        /\ ret = df
        /\ df.index = pre.index
        /\ df.columns = pre.columns
        /\ \A c \in Range(pre.columns) \ {strategy.target_column} :
            df.data[c] = pre.data[c]
        /\ \A i \in 1..NRows(pre) :
            LET was == pre.data[strategy.target_column][i]
                is == df.data[strategy.target_column][i]
            IN  /\ notna(was) => is = was
                /\ (isna(was) /\ strategy.op = "ImputeWithDefaultValueStrategy")
                       => is = <<strategy.default_value>>
                /\ (isna(was) /\ strategy.op = "ImputeByGroupMaxStrategy")
                       => \/ isna(is)
                          \/ is \in Range(pre.data[strategy.target_column])

\* a StandardScaling has returned a table with other values than the
\* caller's, which is as it was
C16_Witness ==
    /\ call.op = "apply_transformation"
    /\ strategy.op = "StandardScaling"
    /\ raised = ""
    /\ NRows(pre) >= 2
    /\ ret.data["x"][1][1].sign = -1
    /\ ~alias
    /\ df = pre

====
